---- MODULE Spec2Model ----
(***************************************************************************)
(* A model of gardener-extension-otelcol: the validation of the provider   *)
(* config (CollectorConfig) and the extension actuator (Reconcile, Delete, *)
(* ForceDelete, Restore, Migrate) working against the API server objects   *)
(* it touches: the Cluster resource, the secrets owned by the secrets      *)
(* manager and the managed resource "external-otelcol".                    *)
(*                                                                         *)
(* Two specifications share the variables:                                 *)
(*   SpecV  draws a CollectorConfig and applies validation.Validate to it; *)
(*   Spec   runs the actuator's operations against a changing environment. *)
(***************************************************************************)
EXTENDS Integers, Sequences, FiniteSets, TLC

VARIABLES
    gardenletFeatureGates,  \* Actuator.gardenletFeatureGates, set by New
    clusters,               \* namespace -> the Cluster resource of that name (Nil: none)
    secrets,                \* namespace -> the secrets owned by the secrets manager identity
    caRenewalDue,           \* namespace -> the newest CA secret is past its renewal time
    managedResources,       \* namespace -> the managed resource "external-otelcol" (Nil: none)
    last,                   \* the actuator call made by the last step, NoCall after others
    vcfg,       \* SpecV: the CollectorConfig handed to Validate
    vedits,     \* SpecV: number of fields set on the zero-value config so far
    vcalled,    \* SpecV: TRUE once Validate was called on vcfg
    vres,       \* SpecV: what Validate returned for vcfg (Nil before the call)
    collector,  \* SpecG: the collector generated from vcfg (Nil before)
    opts,       \* SpecC, SpecH, SpecM: the options handed to New, in order
    restConfigDiscoverable, \* SpecM: config.GetConfig finds a rest.Config in the environment
    newResult,  \* SpecC, SpecH, SpecM: what New returned (NotCalled before the call)
    run,        \* SpecR: the manager command: its flags, position, calls and error
    workers     \* SpecW: the controller's workers: the limit and, per namespace, the call in progress

vvars == <<vcfg, vedits, vcalled, vres, collector>>
avars == <<gardenletFeatureGates, clusters, secrets, caRenewalDue, managedResources, last>>
nvars == <<opts, restConfigDiscoverable, newResult, run, workers>>
vars == <<avars, vvars, nvars>>

(***************************************************************************)
(* Go pointers. A nil pointer is the empty tuple, a pointer to x is <<x>>. *)
(***************************************************************************)
Nil == <<>>
Ptr(x) == <<x>>
Deref(p) == p[1]

(***************************************************************************)
(* The configuration types (pkg/apis/config).                              *)
(***************************************************************************)
\* ResourceReference{ResourceRef: ResourceReferenceDetails{Name, DataKey}}
ResourceReference(name, dataKey) == [ResourceRef |-> [Name |-> name, DataKey |-> dataKey]]

\* TLSConfig with all references nil
ZeroTLSConfig == [InsecureSkipVerify |-> Nil, CA |-> Nil, Cert |-> Nil, Key |-> Nil]

\* The Go zero value of CollectorConfig: nothing enabled, no endpoint, no
\* TLS block, no token, buffer sizes 0.
ZeroCollectorConfig ==
    [Spec |-> [Exporters |->
        [DebugExporter    |-> [Enabled |-> Nil, Verbosity |-> ""],
         OTLPHTTPExporter |-> [Enabled |-> Nil,
                               Endpoint |-> "", TracesEndpoint |-> "",
                               MetricsEndpoint |-> "", LogsEndpoint |-> "",
                               ProfilesEndpoint |-> "",
                               TLS |-> Nil, Token |-> Nil,
                               ReadBufferSize |-> 0, WriteBufferSize |-> 0],
         OTLPGRPCExporter |-> [Enabled |-> Nil, Endpoint |-> "",
                               TLS |-> Nil, Token |-> Nil,
                               ReadBufferSize |-> 0, WriteBufferSize |-> 0]]]]

\* A variant in which an exporter is enabled unless it is switched off:
\* C11_DisabledByDefault tells it from IsEnabled.
EnabledUnlessDisabled(exporter) == exporter.Enabled # <<FALSE>>

\* IsEnabled of an exporter config: *Enabled when set, false otherwise.
IsEnabled(exporter) ==
    IF exporter.Enabled # Nil THEN Deref(exporter.Enabled) ELSE FALSE

(***************************************************************************)
(* Library functions used by Validate.                                     *)
(***************************************************************************)
\* cmp.Or on booleans: the first argument that is not the zero value
\* (false), or the zero value when there is none.
RECURSIVE CmpOr(_)
CmpOr(vals) ==
    IF vals = <<>> THEN FALSE
    ELSE IF Head(vals) # FALSE THEN Head(vals)
    ELSE CmpOr(Tail(vals))

\* The sample URL strings and whether net/url.Parse returns an error for
\* them: "://bad" has no scheme before the colon, "http://[::1" has an
\* unterminated IPv6 literal; a full URL and a bare host both parse.
GoodURL == "https://example.com:4318"
BareHostURL == "example.com"
NoSchemeURL == "://bad"
BadHostURL == "http://[::1"
URLParseFails(s) == s \in {NoSchemeURL, BadHostURL}

\* field.Required / field.Invalid
FieldRequired(path, detail) == [Type |-> "FieldValueRequired", Field |-> path, Detail |-> detail]
FieldInvalid(path, detail) == [Type |-> "FieldValueInvalid", Field |-> path, Detail |-> detail]

\* A variant whose errors do not carry the message they were built with:
\* C3_NoProviderConfig tells it from Errorf.
ErrorfGeneric(msg) == <<[Msg |-> "error", Errs |-> <<>>]>>

\* A Go error is nil or a pointer to [Msg, Errs]: the message it was built
\* with and, for an aggregate, the field errors it holds.
Errorf(msg) == Ptr([Msg |-> msg, Errs |-> <<>>])
Aggregate(errs) == Ptr([Msg |-> "aggregate", Errs |-> errs])

\* ErrorList.ToAggregate: nil for an empty list, otherwise the errors with
\* later duplicates dropped.
RECURSIVE Dedup(_, _)
Dedup(list, seen) ==
    IF list = <<>> THEN <<>>
    ELSE IF Head(list) \in seen THEN Dedup(Tail(list), seen)
    ELSE <<Head(list)>> \o Dedup(Tail(list), seen \cup {Head(list)})

ToAggregate(list) == IF Len(list) = 0 THEN Nil ELSE Aggregate(Dedup(list, {}))

\* The errors a loop appends, one field.Invalid for each entry it found bad.
AppendErrors(bad, detail) ==
    [i \in 1..Len(bad) |-> FieldInvalid(bad[i].path, detail)]

(***************************************************************************)
(* validation.Validate, check by check, in the order of the code.          *)
(***************************************************************************)
AnyExporterEnabled(cfg) ==
    CmpOr(<<IsEnabled(cfg.Spec.Exporters.DebugExporter),
            IsEnabled(cfg.Spec.Exporters.OTLPHTTPExporter),
            IsEnabled(cfg.Spec.Exporters.OTLPGRPCExporter)>>)

\* A variant without the exporter check: C8_NoExporterRejected tells it from
\* ExporterErrors.
NoExporterErrors(cfg) == <<>>

ExporterErrors(cfg) ==
    IF ~AnyExporterEnabled(cfg)
    THEN <<FieldRequired("spec.exporters", "no exporter enabled")>>
    ELSE <<>>

UrlFields(cfg) ==
    LET http == cfg.Spec.Exporters.OTLPHTTPExporter IN
    << [path |-> "spec.exporters.otlp_http.endpoint", value |-> http.Endpoint],
       [path |-> "spec.exporters.otlp_http.traces_endpoint", value |-> http.TracesEndpoint],
       [path |-> "spec.exporters.otlp_http.metrics_endpoint", value |-> http.MetricsEndpoint],
       [path |-> "spec.exporters.otlp_http.logs_endpoint", value |-> http.LogsEndpoint],
       [path |-> "spec.exporters.otlp_http.profiles_endpoint", value |-> http.ProfilesEndpoint] >>

BadUrlField(f) == f.value # "" /\ URLParseFails(f.value)

UrlErrors(cfg) == AppendErrors(SelectSeq(UrlFields(cfg), BadUrlField), "invalid URL specified")

NonNegativeFields(cfg) ==
    LET http == cfg.Spec.Exporters.OTLPHTTPExporter
        grpc == cfg.Spec.Exporters.OTLPGRPCExporter IN
    << [path |-> "spec.exporters.otlp_http.read_buffer_size", value |-> http.ReadBufferSize],
       [path |-> "spec.exporters.otlp_http.write_buffer_size", value |-> http.WriteBufferSize],
       [path |-> "spec.exporters.otlp_grpc.read_buffer_size", value |-> grpc.ReadBufferSize],
       [path |-> "spec.exporters.otlp_grpc.write_buffer_size", value |-> grpc.WriteBufferSize] >>

NegativeField(f) == f.value < 0

NonNegativeErrors(cfg) ==
    AppendErrors(SelectSeq(NonNegativeFields(cfg), NegativeField), "value cannot be negative")

TLSResourceRefs(prefix, tls) ==
    IF tls # Nil
    THEN << [path |-> prefix \o ".tls.ca", ref |-> Deref(tls).CA],
            [path |-> prefix \o ".tls.cert", ref |-> Deref(tls).Cert],
            [path |-> prefix \o ".tls.key", ref |-> Deref(tls).Key] >>
    ELSE <<>>

ResourceRefs(cfg) ==
    LET http == cfg.Spec.Exporters.OTLPHTTPExporter
        grpc == cfg.Spec.Exporters.OTLPGRPCExporter IN
    << [path |-> "spec.exporters.otlp_http.token", ref |-> http.Token],
       [path |-> "spec.exporters.otlp_grpc.token", ref |-> grpc.Token] >>
    \o TLSResourceRefs("spec.exporters.otlp_http", http.TLS)
    \o TLSResourceRefs("spec.exporters.otlp_grpc", grpc.TLS)

\* A variant that looks at the name only: C9_EmptyReferenceRejected tells it
\* from BadResourceRef.
NameOnlyBadResourceRef(f) ==
    /\ f.ref # Nil
    /\ Deref(f.ref).ResourceRef.Name = ""

BadResourceRef(f) ==
    /\ f.ref # Nil
    /\ \/ Deref(f.ref).ResourceRef.Name = ""
       \/ Deref(f.ref).ResourceRef.DataKey = ""

ResourceRefErrors(cfg) ==
    AppendErrors(SelectSeq(ResourceRefs(cfg), BadResourceRef), "name or dataKey is empty")

NonEmptyStrings(cfg) ==
    IF IsEnabled(cfg.Spec.Exporters.OTLPGRPCExporter)
    THEN << [path |-> "spec.exporters.otlp_grpc.endpoint",
             value |-> cfg.Spec.Exporters.OTLPGRPCExporter.Endpoint] >>
    ELSE <<>>

EmptyString(f) == f.value = ""

NonEmptyErrors(cfg) ==
    AppendErrors(SelectSeq(NonEmptyStrings(cfg), EmptyString), "empty value specified")

\* A variant that returns at the first failing check:
\* C10_ValidateNilIffNoViolation tells it from ValidateErrorList.
FirstErrorOnly(cfg) ==
    LET all == ExporterErrors(cfg) \o UrlErrors(cfg) \o NonNegativeErrors(cfg)
                   \o ResourceRefErrors(cfg) \o NonEmptyErrors(cfg)
    IN IF all = <<>> THEN <<>> ELSE <<Head(all)>>

\* allErrs as it stands at the return statement
ValidateErrorList(cfg) ==
    ExporterErrors(cfg) \o UrlErrors(cfg) \o NonNegativeErrors(cfg)
        \o ResourceRefErrors(cfg) \o NonEmptyErrors(cfg)

\* Validate: nil, or the aggregate of the errors
Validate(cfg) == ToAggregate(ValidateErrorList(cfg))

(***************************************************************************)
(* The objects the actuator generates (pkg/actuator/actuator.go).          *)
(* Go maps are functions; a key that is not set is not in the domain.      *)
(***************************************************************************)
baseResourceName == "external-otelcol"
managedResourceName == baseResourceName
otelCollectorName == baseResourceName
otelCollectorServiceAccountName == "external-otelcol-collector"
secretNameCACertificate == "ca-otelcol"
secretNameServerCertificate == "otelcol-targetallocator-server"
secretNameClientCertificate == "otelcol-collector-client"
targetAllocatorDeploymentName == "external-otelcol-targetallocator"
targetAllocatorHTTPSServiceName == "external-otelcol-targetallocator-https"
targetAllocatorServiceAccountName == "external-otelcol-targetallocator"
targetAllocatorRoleName == "external-otelcol-targetallocator"
targetAllocatorConfigMapName == "external-otelcol-targetallocator-config"
bearerTokenAuthName == "bearertokenauth"
volumeNameTLS == "tls"
volumeMountPathTLS == "/etc/ssl/tls"
volumeNameBearerToken == "bearer-token-auth"
volumeMountPathBearerTokenFile == "/etc/auth/bearer"

EmptyMap == [k \in {} |-> Nil]
MapIf(cond, key, val) == IF cond THEN key :> val ELSE EmptyMap

getCommonLabels ==
    [role |-> "observability", gardenRole |-> "observability", observabilityApplication |-> otelCollectorName]

getDebugExporterConfig(cfg) == [verbosity |-> cfg.Verbosity]

\* the "tls" section of the otlphttp exporter
getTLSSettings(tls) ==
    MapIf(tls.InsecureSkipVerify # Nil, "insecure_skip_verify",
          IF tls.InsecureSkipVerify # Nil THEN Deref(tls.InsecureSkipVerify) ELSE FALSE)
    @@ MapIf(tls.CA # Nil, "ca_file",
          IF tls.CA # Nil THEN volumeMountPathTLS \o "/" \o Deref(tls.CA).ResourceRef.DataKey ELSE "")
    @@ MapIf(tls.Cert # Nil, "cert_file",
          IF tls.Cert # Nil THEN volumeMountPathTLS \o "/" \o Deref(tls.Cert).ResourceRef.DataKey ELSE "")
    @@ MapIf(tls.Key # Nil, "key_file",
          IF tls.Key # Nil THEN volumeMountPathTLS \o "/" \o Deref(tls.Key).ResourceRef.DataKey ELSE "")

\* A variant that references the bearer token authenticator whether or not
\* a token is configured: C24_BearerTokenAuth tells it from
\* getOTLPHTTPExporterConfig.
ExporterConfigAuthAlways(cfg) ==
    ("read_buffer_size" :> cfg.ReadBufferSize)
    @@ ("write_buffer_size" :> cfg.WriteBufferSize)
    @@ ("auth" :> [authenticator |-> "bearertokenauth"])

\* The settings copied verbatim (timeout, compression, encoding, retry on
\* failure) are not part of the modelled config and are left out.
getOTLPHTTPExporterConfig(cfg) ==
    MapIf(cfg.Endpoint # "", "endpoint", cfg.Endpoint)
    @@ MapIf(cfg.TracesEndpoint # "", "traces_endpoint", cfg.TracesEndpoint)
    @@ MapIf(cfg.MetricsEndpoint # "", "metrics_endpoint", cfg.MetricsEndpoint)
    @@ MapIf(cfg.LogsEndpoint # "", "logs_endpoint", cfg.LogsEndpoint)
    @@ MapIf(cfg.ProfilesEndpoint # "", "profiles_endpoint", cfg.ProfilesEndpoint)
    @@ ("read_buffer_size" :> cfg.ReadBufferSize)
    @@ ("write_buffer_size" :> cfg.WriteBufferSize)
    @@ MapIf(cfg.TLS # Nil, "tls", IF cfg.TLS # Nil THEN getTLSSettings(Deref(cfg.TLS)) ELSE EmptyMap)
    @@ MapIf(cfg.Token # Nil, "auth", [authenticator |-> bearerTokenAuthName])

getOtelExporters(cfg) ==
    MapIf(IsEnabled(cfg.Spec.Exporters.DebugExporter), "debug",
          getDebugExporterConfig(cfg.Spec.Exporters.DebugExporter))
    @@ MapIf(IsEnabled(cfg.Spec.Exporters.OTLPHTTPExporter), "otlphttp",
          getOTLPHTTPExporterConfig(cfg.Spec.Exporters.OTLPHTTPExporter))

\* A variant that takes the keys in an order a Go map may yield them in:
\* C20_PipelineExporters tells it from SortedKeys.
UnsortedKeys(m) == SelectSeq(<<"otlphttp", "debug">>, LAMBDA k : k \in DOMAIN m)

\* slices.Sorted(maps.Keys(m)) for the exporter names: Go compares strings
\* byte-wise, which puts "debug" before "otlphttp".
ExporterNameOrder == <<"debug", "otlphttp">>
HasKey(m, k) == k \in DOMAIN m
SortedKeys(m) == SelectSeq(ExporterNameOrder, LAMBDA k : HasKey(m, k))

RECURSIVE secretNameForResource(_, _)
secretNameForResource(resourceName, resources) ==
    IF resources = <<>> THEN ""
    ELSE IF /\ Head(resources).Name = resourceName
            /\ Head(resources).ResourceRef.APIVersion = "v1"
            /\ Head(resources).ResourceRef.Kind = "Secret"
         THEN "ref-" \o Head(resources).ResourceRef.Name
         ELSE secretNameForResource(resourceName, Tail(resources))

SecretVolume(name, secretName) == [Name |-> name, Secret |-> secretName, Sources |-> <<>>]
VolumeMount(name, path, readOnly) == [Name |-> name, MountPath |-> path, ReadOnly |-> readOnly]

\* addSecretToProjectedVolume for one reference of the TLS block
SecretProjection(ref, resources) ==
    IF ref = Nil THEN <<>>
    ELSE << [Secret |-> secretNameForResource(Deref(ref).ResourceRef.Name, resources),
             Key |-> Deref(ref).ResourceRef.DataKey,
             Path |-> Deref(ref).ResourceRef.DataKey] >>

\* A variant that projects the key first and the CA last:
\* C22_TLSVolumeAndSettings tells it from TLSVolumes.
TLSVolumesKeyFirst(tls, resources) ==
    IF tls = <<>> THEN <<>>
    ELSE << [Name |-> volumeNameTLS, Secret |-> "",
             Sources |-> SecretProjection(tls[1].Key, resources)
                         \o SecretProjection(tls[1].Cert, resources)
                         \o SecretProjection(tls[1].CA, resources)] >>

TLSVolumes(tls, resources) ==
    IF tls = Nil THEN <<>>
    ELSE << [Name |-> volumeNameTLS, Secret |-> "",
             Sources |-> SecretProjection(Deref(tls).CA, resources)
                         \o SecretProjection(Deref(tls).Cert, resources)
                         \o SecretProjection(Deref(tls).Key, resources)] >>

getOtelCollector(namespace, caSecret, clientSecret, cfg, resources, image) ==
    LET exporters == getOtelExporters(cfg)
        exporterNames == SortedKeys(exporters)
        tls == cfg.Spec.Exporters.OTLPHTTPExporter.TLS
        token == cfg.Spec.Exporters.OTLPHTTPExporter.Token
    IN  [Name |-> otelCollectorName,
         Namespace |-> namespace,
         Labels |-> getCommonLabels,
         Image |-> image,
         ServiceAccount |-> otelCollectorServiceAccountName,
         VolumeMounts |->
            << VolumeMount("ca-cert", "/etc/ssl/certs/ca", TRUE),
               VolumeMount("client-cert", "/etc/ssl/certs/client", TRUE) >>
            \o (IF tls # Nil THEN <<VolumeMount(volumeNameTLS, volumeMountPathTLS, FALSE)>> ELSE <<>>)
            \o (IF token # Nil
                THEN <<VolumeMount(volumeNameBearerToken, volumeMountPathBearerTokenFile, FALSE)>>
                ELSE <<>>),
         Volumes |->
            << SecretVolume("ca-cert", caSecret), SecretVolume("client-cert", clientSecret) >>
            \o TLSVolumes(tls, resources)
            \o (IF token # Nil
                THEN <<SecretVolume(volumeNameBearerToken,
                                    secretNameForResource(Deref(token).ResourceRef.Name, resources))>>
                ELSE <<>>),
         Exporters |-> exporters,
         Extensions |->
            MapIf(token # Nil, bearerTokenAuthName,
                  [filename |-> IF token # Nil
                                THEN volumeMountPathBearerTokenFile \o "/" \o Deref(token).ResourceRef.DataKey
                                ELSE ""]),
         ServiceExtensions |-> IF token # Nil THEN <<bearerTokenAuthName>> ELSE <<>>,
         Pipelines |-> [metrics |-> [Receivers |-> <<"prometheus">>,
                                     Processors |-> <<"batch">>,
                                     Exporters |-> exporterNames]]]

getTargetAllocatorDeployment(namespace, caSecret, serverSecret, image) ==
    [Name |-> targetAllocatorDeploymentName,
     Namespace |-> namespace,
     Labels |-> getCommonLabels,
     Image |-> image,
     ServiceAccount |-> targetAllocatorServiceAccountName,
     Volumes |-> << SecretVolume("ca-cert", caSecret),
                    SecretVolume("server-cert", serverSecret),
                    [Name |-> "targetallocator-config", Secret |-> "", Sources |-> <<>>] >>]

\* The objects handed to registry.AddAllAndSerialize, in argument order.
ManagedResourceObjects(namespace, caSecret, serverSecret, clientSecret, cfg, resources, taImage, collectorImage) ==
    << [Name |-> targetAllocatorConfigMapName, Namespace |-> namespace],
       [Name |-> targetAllocatorServiceAccountName, Namespace |-> namespace],
       [Name |-> targetAllocatorRoleName, Namespace |-> namespace],
       [Name |-> targetAllocatorRoleName, Namespace |-> namespace],
       [Name |-> targetAllocatorHTTPSServiceName, Namespace |-> namespace],
       getTargetAllocatorDeployment(namespace, caSecret, serverSecret, taImage),
       [Name |-> otelCollectorServiceAccountName, Namespace |-> namespace],
       getOtelCollector(namespace, caSecret, clientSecret, cfg, resources, collectorImage) >>

(***************************************************************************)
(* The environment of the actuator: what the libraries it calls do.        *)
(***************************************************************************)
\* The external calls of Reconcile and Delete that can return an error
\* whatever their arguments; a call fails when it is the one named by the
\* fault input of the step.
Faults == {"none", "secretsmanager.New", "GetCluster", "Generate.ca", "Generate.server",
           "Generate.client", "FindImage", "AddAllAndSerialize", "CreateForSeed",
           "Cleanup", "DeleteForSeed"}

\* The secrets manager names a secret after its config and the time its
\* rotation was initiated: Gen counts the rotations of the CA it belongs to.
Secret(name, gen) == [Name |-> name, Gen |-> gen]
SecretObjectName(secret) == secret.Name \o "-" \o ToString(secret.Gen)
secretNameCABundle == "ca-otelcol-bundle"

Max(S) == CHOOSE x \in S : \A y \in S : y <= x
CurrentGen(secs, name) ==
    IF \E s \in secs : s.Name = name THEN Max({s.Gen : s \in {t \in secs : t.Name = name}}) ELSE 0

\* A variant that rotates a first-generation CA at every call:
\* C7_ReconcileIdempotent tells it from CAGenToIssue.
RotateAtEveryCall(secs, renewalDue) ==
    LET cur == CurrentGen(secs, secretNameCACertificate) IN
    IF cur = 0 THEN 1 ELSE IF cur = 1 THEN cur + 1 ELSE cur

\* secretsmanager.New reads the secrets of the identity and prepares the
\* newest CA for renewal when it is past its renewal time
\* (Config.CASecretAutoRotation); Generate then issues the next generation.
CAGenToIssue(secs, renewalDue) ==
    LET cur == CurrentGen(secs, secretNameCACertificate) IN
    IF cur = 0 THEN 1 ELSE IF renewalDue THEN cur + 1 ELSE cur

\* A variant that replaces the CA secrets of older generations:
\* C28_ReconcileKeepsSecrets tells it from GenerateCA.
GenerateCAReplacing(secs, gen) ==
    {s \in secs : s.Name \notin {secretNameCACertificate, secretNameCABundle}}
        \cup {Secret(secretNameCACertificate, gen), Secret(secretNameCABundle, gen)}

\* Generate for the CA config with Rotate(KeepOld): the CA secret and its
\* bundle exist afterwards, older generations are kept.
GenerateCA(secs, gen) ==
    secs \cup {Secret(secretNameCACertificate, gen), Secret(secretNameCABundle, gen)}

\* A variant that signs with a CA certificate that is not issued yet:
\* C18_CertificatesBeforeManagedResource tells it from ServerSignerGen.
SignedByNextCA(secs, gen) == gen + 1

\* A server certificate is signed by the old CA while one is kept, a client
\* certificate by the current CA (secretsmanager.SignedByCA).
ServerSignerGen(secs, gen) ==
    IF gen > 1 /\ Secret(secretNameCACertificate, gen - 1) \in secs THEN gen - 1 ELSE gen
ClientSignerGen(secs, gen) == gen

\* Cleanup of a manager that generated nothing deletes every secret of the identity.
Cleanup(secs) == {}

\* A variant that takes no shoot for hibernated:
\* C16_HibernatedReconcileIsNoop tells it from HibernationIsEnabled.
HibernationNeverEnabled(shoot) == FALSE

\* v1beta1helper.HibernationIsEnabled
HibernationIsEnabled(shoot) ==
    /\ shoot.Spec.Hibernation # Nil
    /\ Deref(shoot.Spec.Hibernation).Enabled # Nil
    /\ Deref(Deref(shoot.Spec.Hibernation).Enabled)

\* managedresources.CreateForSeed(ctx, client, namespace, name, false, data)
ManagedResource(namespace, name, data) ==
    [Namespace |-> namespace, Name |-> name, Class |-> "seed", KeepObjects |-> FALSE, Data |-> data]

\* imagevector.Images().FindImage
ImageNameOTelTargetAllocator == "otel-targetallocator"
ImageNameOTelCollector == "otel-collector"
FindImage(name) == "registry/" \o name

\* The v1alpha1 defaults applied on decoding: Enabled of the debug and the
\* OTLP HTTP exporter defaults to false.
SetDefaults(obj) ==
    [obj EXCEPT !.Spec.Exporters.DebugExporter.Enabled = IF @ = Nil THEN Ptr(FALSE) ELSE @,
                !.Spec.Exporters.OTLPHTTPExporter.Enabled = IF @ = Nil THEN Ptr(FALSE) ELSE @]

\* runtime.DecodeInto(decoder, raw, &cfg): an error unless raw holds a CollectorConfig
DecodeInto(raw) ==
    IF raw.Kind = "CollectorConfig"
    THEN [err |-> Nil, cfg |-> SetDefaults(raw.Object)]
    ELSE [err |-> Errorf("unable to decode"), cfg |-> ZeroCollectorConfig]

(***************************************************************************)
(* The actuator's operations. Each takes the part of the world it reads    *)
(* (st: the feature gates, and the Cluster, secrets, renewal flag and      *)
(* managed resource of the Extension's namespace), the Extension and the   *)
(* fault, and returns the error, the new secrets, renewal flag and managed *)
(* resource, the external calls made in order and the fault that fired.    *)
(***************************************************************************)
FeatureOpenTelemetryCollector == "OpenTelemetryCollector"

\* A variant that rolls back on an error by removing the managed resource:
\* C17_ErrorLeavesManagedResource tells it from Outcome.
OutcomeRolledBack(err, secs, due, mr, steps, fired) ==
    [err |-> err, secrets |-> secs, caRenewalDue |-> due, mr |-> IF err = <<>> THEN mr ELSE <<>>,
     steps |-> steps, fired |-> fired]

\* A variant that swallows the error: C2_NoCluster tells it from Outcome.
OutcomeErrorDropped(err, secs, due, mr, steps, fired) ==
    [err |-> <<>>, secrets |-> secs, caRenewalDue |-> due, mr |-> mr, steps |-> steps, fired |-> fired]

Outcome(err, secs, due, mr, steps, fired) ==
    [err |-> err, secrets |-> secs, caRenewalDue |-> due, mr |-> mr, steps |-> steps, fired |-> fired]

\* A variant that returns the not-found of a managed resource that does not
\* exist: C4_DeleteIdempotent tells it from DeleteCall.
DeleteStrictNotFound(st, ex, fault) ==
    IF st.mr = Nil
    THEN Outcome(Errorf("not found"), {}, FALSE, st.mr,
                 <<"secretsmanager.New", "Cleanup", "DeleteForSeed">>, fault)
    ELSE Outcome(Nil, {}, FALSE, Nil, <<"secretsmanager.New", "Cleanup", "DeleteForSeed">>, "none")

\* A variant that deletes the managed resource before it cleans up:
\* C19_CleanupBeforeManagedResourceDeletion tells it from DeleteCall.
DeleteManagedResourceFirst(st, ex, fault) ==
    IF fault = "DeleteForSeed"
    THEN Outcome(Errorf("DeleteForSeed"), st.secrets, st.caRenewalDue, st.mr, <<"DeleteForSeed">>, fault)
    ELSE IF fault = "secretsmanager.New"
    THEN Outcome(Errorf("failed creating a new secrets manager"), st.secrets, st.caRenewalDue, <<>>,
                 <<"DeleteForSeed", "secretsmanager.New">>, fault)
    ELSE IF fault = "Cleanup"
    THEN Outcome(Errorf("failed cleaning up secrets managed by secrets manager"),
                 st.secrets, st.caRenewalDue, <<>>,
                 <<"DeleteForSeed", "secretsmanager.New", "Cleanup">>, fault)
    ELSE Outcome(<<>>, {}, FALSE, <<>>, <<"DeleteForSeed", "secretsmanager.New", "Cleanup">>, "none")

DeleteCall(st, ex, fault) ==
    IF fault = "secretsmanager.New"
    THEN Outcome(Errorf("failed creating a new secrets manager"),
                 st.secrets, st.caRenewalDue, st.mr, <<"secretsmanager.New">>, fault)
    ELSE IF fault = "Cleanup"
    THEN Outcome(Errorf("failed cleaning up secrets managed by secrets manager"),
                 st.secrets, st.caRenewalDue, st.mr, <<"secretsmanager.New", "Cleanup">>, fault)
    ELSE IF fault = "DeleteForSeed"
    THEN Outcome(Errorf("DeleteForSeed"), Cleanup(st.secrets), FALSE, st.mr,
                 <<"secretsmanager.New", "Cleanup", "DeleteForSeed">>, fault)
    ELSE \* a not-found of the managed resource is ignored
         Outcome(Nil, Cleanup(st.secrets), FALSE, Nil,
                 <<"secretsmanager.New", "Cleanup", "DeleteForSeed">>, "none")

\* A variant that deletes the managed resource and leaves the secrets:
\* C5_ForceDeleteIsDelete tells it from ForceDeleteCall.
DeleteManagedResourceOnly(st, ex, fault) ==
    Outcome(Nil, st.secrets, st.caRenewalDue, Nil, <<"DeleteForSeed">>, "none")

ForceDeleteCall(st, ex, fault) == DeleteCall(st, ex, fault)

\* Reconcile from the certificate generation on (cfg passed validation)
ReconcileGenerate(st, ex, cfg, fault) ==
    LET ns == ex.Namespace
        shoot == Deref(st.cluster).Shoot
        gen == CAGenToIssue(st.secrets, st.caRenewalDue)
        s1 == GenerateCA(st.secrets, gen)
        caBundleSecret == Secret(secretNameCABundle, gen)
        serverSecret == Secret(secretNameServerCertificate, ServerSignerGen(s1, gen))
        s2 == s1 \cup {serverSecret}
        clientSecret == Secret(secretNameClientCertificate, ClientSignerGen(s2, gen))
        s3 == s2 \cup {clientSecret}
        data == ManagedResourceObjects(ns, SecretObjectName(caBundleSecret),
                    SecretObjectName(serverSecret), SecretObjectName(clientSecret),
                    cfg, shoot.Spec.Resources,
                    FindImage(ImageNameOTelTargetAllocator), FindImage(ImageNameOTelCollector))
        pre == <<"secretsmanager.New", "GetCluster", "DecodeInto", "Validate">>
        Fail(err, secs, due, steps) == Outcome(err, secs, due, st.mr, pre \o steps, fault)
    IN
    IF fault = "Generate.ca"
    THEN Fail(Errorf("failed generating CA certificate secret"), st.secrets, st.caRenewalDue,
              <<"Generate.ca">>)
    ELSE IF fault = "Generate.server"
    THEN Fail(Errorf("failed generating server certificate secret for target allocator"),
              s1, FALSE, <<"Generate.ca", "Generate.server">>)
    ELSE IF fault = "Generate.client"
    THEN Fail(Errorf("failed generating server certificate secret for target allocator"),
              s2, FALSE, <<"Generate.ca", "Generate.server", "Generate.client">>)
    ELSE LET gens == <<"Generate.ca", "Generate.server", "Generate.client">> IN
    IF fault = "FindImage"
    THEN Fail(Errorf("failed to find image"), s3, FALSE, gens \o <<"FindImage">>)
    ELSE LET imgs == gens \o <<"FindImage", "FindImage">> IN
    IF fault = "AddAllAndSerialize"
    THEN Fail(Errorf("AddAllAndSerialize"), s3, FALSE, imgs \o <<"yaml.Marshal", "AddAllAndSerialize">>)
    ELSE IF fault = "CreateForSeed"
    THEN Fail(Errorf("CreateForSeed"), s3, FALSE,
              imgs \o <<"yaml.Marshal", "AddAllAndSerialize", "CreateForSeed">>)
    ELSE Outcome(Nil, s3, FALSE, Ptr(ManagedResource(ns, managedResourceName, data)),
                 pre \o imgs \o <<"yaml.Marshal", "AddAllAndSerialize", "CreateForSeed">>, "none")

\* A variant for which a gate that is not in the map is enabled:
\* C15_GateOffReconcileIsDelete tells it from FeatureGateEnabled.
GateEnabledUnlessFalse(gates) ==
    \/ "OpenTelemetryCollector" \notin DOMAIN gates
    \/ gates["OpenTelemetryCollector"]

\* A variant that never finds the gate: C1_ReconcileCreatesManagedResource
\* tells it from FeatureGateEnabled.
GateNeverEnabled(gates) == FALSE

FeatureGateEnabled(gates) ==
    /\ FeatureOpenTelemetryCollector \in DOMAIN gates
    /\ gates[FeatureOpenTelemetryCollector]

ReconcileCall(st, ex, fault) ==
    LET Return(err, steps, fired) ==
            Outcome(err, st.secrets, st.caRenewalDue, st.mr, steps, fired)
    IN
    IF ~FeatureGateEnabled(st.gates)
    THEN DeleteCall(st, ex, fault)
    ELSE IF fault = "secretsmanager.New"
    THEN Return(Errorf("failed creating a new secrets manager"), <<"secretsmanager.New">>, fault)
    ELSE IF st.cluster = Nil \/ fault = "GetCluster"
    THEN Return(Errorf("failed to get cluster"), <<"secretsmanager.New", "GetCluster">>,
                IF fault = "GetCluster" THEN fault ELSE "none")
    ELSE IF HibernationIsEnabled(Deref(st.cluster).Shoot)
    THEN Return(Nil, <<"secretsmanager.New", "GetCluster">>, "none")
    ELSE IF ex.Spec.ProviderConfig = Nil
    THEN Return(Errorf("no provider config specified"), <<"secretsmanager.New", "GetCluster">>, "none")
    ELSE LET decoded == DecodeInto(Deref(ex.Spec.ProviderConfig)) IN
    IF decoded.err # Nil
    THEN Return(Errorf("invalid provider spec configuration"),
                <<"secretsmanager.New", "GetCluster", "DecodeInto">>, "none")
    ELSE LET err == Validate(decoded.cfg) IN
    IF err # Nil
    THEN Return(err, <<"secretsmanager.New", "GetCluster", "DecodeInto", "Validate">>, "none")
    ELSE LET out == ReconcileGenerate(st, ex, decoded.cfg, fault) IN
         [out EXCEPT !.fired = IF out.err = Nil THEN "none" ELSE fault]

RestoreCall(st, ex, fault) == ReconcileCall(st, ex, fault)

\* A variant that removes what Reconcile created, as the migration of a
\* control plane usually does: C6_RestoreMigrateAreReconcile tells it from
\* MigrateCall.
MigrateRemoves(st, ex, fault) ==
    Outcome(Nil, st.secrets, st.caRenewalDue, Nil, <<"DeleteForSeed">>, "none")

MigrateCall(st, ex, fault) == ReconcileCall(st, ex, fault)

(***************************************************************************)
(* The constructors with functional options: controller.New,               *)
(* heartbeat.New and mgr.New.  An option is a record of its name and its   *)
(* argument; New applies the options in order to the initial value and     *)
(* then checks what it got.                                                *)
(***************************************************************************)
Option(name, val) == [opt |-> name, val |-> val]

\* fmt.Errorf("%w: ...", sentinel): an error that errors.Is the sentinel
Wrapf(sentinel, msg) == Ptr([Msg |-> msg, Errs |-> <<>>, Wraps |-> sentinel])

\* What New returns: the object (nil on error) and the error.
Returned(obj, err) == [called |-> TRUE, obj |-> obj, err |-> err]
NotCalled == [called |-> FALSE, obj |-> Nil, err |-> Nil]

\* The manager command before it runs
NotRun == [flags |-> <<>>, pc |-> "none", calls |-> <<>>, err |-> Nil, started |-> FALSE]

\* No worker: the controller is not running.
NoWorkers == [max |-> 0, of |-> <<>>]

ErrInvalidController == "invalid controller config"

\* The Controller as New allocates it.  Of the options that only store their
\* argument (controller options, predicates, resync interval, watch builder,
\* operation annotation) WithFinalizerSuffix stands for all.
ZeroController ==
    [actuator |-> Nil, name |-> "", finalizerSuffix |-> "", extensionType |-> "",
     extensionClasses |-> <<>>]

ApplyControllerOption(c, o) ==
    CASE o.opt = "WithActuator" -> [c EXCEPT !.actuator = o.val]
      [] o.opt = "WithName" -> [c EXCEPT !.name = o.val]
      [] o.opt = "WithFinalizerSuffix" -> [c EXCEPT !.finalizerSuffix = o.val]
      [] o.opt = "WithExtensionType" -> [c EXCEPT !.extensionType = o.val]
      [] o.opt = "WithExtensionClass" -> [c EXCEPT !.extensionClasses = Append(@, o.val)]

RECURSIVE ApplyControllerOptions(_, _)
ApplyControllerOptions(c, os) ==
    IF os = <<>> THEN c ELSE ApplyControllerOptions(ApplyControllerOption(c, Head(os)), Tail(os))

\* A variant that looks at the name before the actuator:
\* C12_ControllerNewValidates tells it from ControllerNew.
ControllerNewNameFirst(os) ==
    LET c == ApplyControllerOptions(ZeroController, os) IN
    IF c.name = ""
    THEN Returned(Nil, Wrapf(ErrInvalidController, "missing controller name"))
    ELSE IF c.actuator = Nil
    THEN Returned(Nil, Wrapf(ErrInvalidController, "missing actuator implementation"))
    ELSE IF c.extensionType = ""
    THEN Returned(Nil, Wrapf(ErrInvalidController, "missing extension type"))
    ELSE IF Len(c.extensionClasses) = 0
    THEN Returned(Nil, Wrapf(ErrInvalidController, "missing extension class"))
    ELSE Returned(Ptr([c EXCEPT !.finalizerSuffix = IF @ = "" THEN c.name ELSE @]), Nil)

\* controller.New
ControllerNew(os) ==
    LET c == ApplyControllerOptions(ZeroController, os) IN
    IF c.actuator = Nil
    THEN Returned(Nil, Wrapf(ErrInvalidController, "missing actuator implementation"))
    ELSE IF c.name = ""
    THEN Returned(Nil, Wrapf(ErrInvalidController, "missing controller name"))
    ELSE IF c.extensionType = ""
    THEN Returned(Nil, Wrapf(ErrInvalidController, "missing extension type"))
    ELSE IF Len(c.extensionClasses) = 0
    THEN Returned(Nil, Wrapf(ErrInvalidController, "missing extension class"))
    ELSE Returned(Ptr([c EXCEPT !.finalizerSuffix = IF @ = "" THEN c.name ELSE @]), Nil)

ErrInvalidHeartbeat == "invalid heartbeat config"

\* The Heartbeat as New allocates it: the real clock and a renew interval of
\* 30 seconds.
ZeroHeartbeat ==
    [extensionName |-> "", namespace |-> "", renewInterval |-> 30, clock |-> "RealClock"]

ApplyHeartbeatOption(h, o) ==
    CASE o.opt = "WithExtensionName" -> [h EXCEPT !.extensionName = o.val]
      [] o.opt = "WithLeaseNamespace" -> [h EXCEPT !.namespace = o.val]
      [] o.opt = "WithRenewInterval" -> [h EXCEPT !.renewInterval = o.val]
      [] o.opt = "WithClock" -> [h EXCEPT !.clock = o.val]

RECURSIVE ApplyHeartbeatOptions(_, _)
ApplyHeartbeatOptions(h, os) ==
    IF os = <<>> THEN h ELSE ApplyHeartbeatOptions(ApplyHeartbeatOption(h, Head(os)), Tail(os))

\* A variant that looks at the namespace before the name:
\* C13_HeartbeatNewValidates tells it from HeartbeatNew.
HeartbeatNewNamespaceFirst(os) ==
    LET h == ApplyHeartbeatOptions(ZeroHeartbeat, os) IN
    IF h.namespace = ""
    THEN Returned(Nil, Wrapf(ErrInvalidHeartbeat, "missing lease namespace"))
    ELSE IF h.extensionName = ""
    THEN Returned(Nil, Wrapf(ErrInvalidHeartbeat, "missing extension name"))
    ELSE Returned(Ptr(h), Nil)

\* heartbeat.New
HeartbeatNew(os) ==
    LET h == ApplyHeartbeatOptions(ZeroHeartbeat, os) IN
    IF h.extensionName = ""
    THEN Returned(Nil, Wrapf(ErrInvalidHeartbeat, "missing extension name"))
    ELSE IF h.namespace = ""
    THEN Returned(Nil, Wrapf(ErrInvalidHeartbeat, "missing lease namespace"))
    ELSE Returned(Ptr(h), Nil)

\* What mgr.New returns, with the calls it made outside the package.
ReturnedAfter(obj, err, steps) == [called |-> TRUE, obj |-> obj, err |-> err, steps |-> steps]

\* The mgr as New allocates it.  Of the options that only store their
\* argument for manager.New (metrics, leader election, probes, webhook
\* server, logger, pprof, client and cache options) none is modelled; the
\* controller options are, with their defaults.
ZeroMgr ==
    [restConfig |-> Nil, addToSchemes |-> <<>>, installSchemes |-> <<>>,
     controllerOpts |-> [MaxConcurrentReconciles |-> 5, RecoverPanic |-> Ptr(TRUE)]]

\* A variant in which WithControllerOptions keeps the max concurrent
\* reconciles set so far: C25_LastOptionWins tells it from ApplyMgrOption.
ApplyMgrOptionMerging(m, o) ==
    CASE o.opt = "WithConfig" -> [m EXCEPT !.restConfig = o.val]
      [] o.opt = "WithAddToScheme" -> [m EXCEPT !.addToSchemes = Append(@, o.val)]
      [] o.opt = "WithInstallScheme" -> [m EXCEPT !.installSchemes = Append(@, o.val)]
      [] o.opt = "WithControllerOptions" ->
            [m EXCEPT !.controllerOpts =
                [o.val EXCEPT !.MaxConcurrentReconciles = m.controllerOpts.MaxConcurrentReconciles]]
      [] o.opt = "WithMaxConcurrentReconciles" ->
            [m EXCEPT !.controllerOpts.MaxConcurrentReconciles = o.val]

ApplyMgrOption(m, o) ==
    CASE o.opt = "WithConfig" -> [m EXCEPT !.restConfig = o.val]
      [] o.opt = "WithAddToScheme" -> [m EXCEPT !.addToSchemes = Append(@, o.val)]
      [] o.opt = "WithInstallScheme" -> [m EXCEPT !.installSchemes = Append(@, o.val)]
      [] o.opt = "WithControllerOptions" -> [m EXCEPT !.controllerOpts = o.val]
      [] o.opt = "WithMaxConcurrentReconciles" ->
            [m EXCEPT !.controllerOpts.MaxConcurrentReconciles = o.val]

RECURSIVE ApplyMgrOptions(_, _)
ApplyMgrOptions(m, os) ==
    IF os = <<>> THEN m ELSE ApplyMgrOptions(ApplyMgrOption(m, Head(os)), Tail(os))

\* The functions given to WithAddToScheme: one that registers its types and
\* one that returns an error.
AddToSchemeOK == [types |-> "core/v1", fails |-> FALSE]
AddToSchemeFailing == [types |-> "broken", fails |-> TRUE]

\* The loop over m.addToSchemes: the functions called, up to the first that
\* returns an error.
RECURSIVE AddToSchemeCalls(_)
AddToSchemeCalls(fs) ==
    IF fs = <<>> THEN <<>>
    ELSE IF Head(fs).fails THEN <<"addToScheme">>
    ELSE <<"addToScheme">> \o AddToSchemeCalls(Tail(fs))

\* A variant that looks for the rest.Config before it registers the schemes:
\* C14_MgrNewRestConfig tells it from MgrNew.
MgrNewConfigFirst(os, discoverable, fault) ==
    LET m == ApplyMgrOptions(ZeroMgr, os) IN
    IF m.restConfig = Nil /\ ~discoverable
    THEN ReturnedAfter(Nil, Errorf("failed to get rest config"), <<"config.GetConfig">>)
    ELSE ReturnedAfter(Nil, Errorf("failed to add scheme"),
                       <<"config.GetConfig">> \o AddToSchemeCalls(m.addToSchemes))

\* mgr.New; fault names the call that fails whatever its arguments
\* (manager.New of controller-runtime) or is "none".
MgrNew(os, discoverable, fault) ==
    LET m == ApplyMgrOptions(ZeroMgr, os)
        adds == AddToSchemeCalls(m.addToSchemes)
        installs == [i \in DOMAIN m.installSchemes |-> "installScheme"]
        discovery == IF m.restConfig = Nil THEN <<"config.GetConfig">> ELSE <<>>
        restConfig == IF m.restConfig = Nil THEN Ptr("discovered") ELSE m.restConfig
    IN
    IF \E i \in DOMAIN m.addToSchemes : m.addToSchemes[i].fails
    THEN ReturnedAfter(Nil, Errorf("failed to add scheme"), adds)
    ELSE IF m.restConfig = Nil /\ ~discoverable
    THEN ReturnedAfter(Nil, Errorf("failed to get rest config"), adds \o installs \o discovery)
    ELSE IF fault = "manager.New"
    THEN ReturnedAfter(Nil, Errorf("failed to create manager"),
                       adds \o installs \o discovery \o <<"manager.New">>)
    ELSE ReturnedAfter(Ptr([Config |-> restConfig,
                            Scheme |-> [i \in DOMAIN m.addToSchemes |-> m.addToSchemes[i].types]
                                       \o m.installSchemes,
                            Controller |-> m.controllerOpts]),
                       Nil, adds \o installs \o discovery \o <<"manager.New">>)

(***************************************************************************)
(* Spec: the extension controller calls the actuator for the Extension of  *)
(* a shoot namespace while Cluster resources come, change and go and the   *)
(* CA certificates age.                                                    *)
(***************************************************************************)
MaxCAGenerations == 2

Namespaces == {"shoot--local--local"}

\* The gardenlet feature gates an actuator can be built with: none (the
\* default of New), or the OpenTelemetryCollector gate set to false or true.
FeatureGateMaps ==
    {EmptyMap, FeatureOpenTelemetryCollector :> FALSE, FeatureOpenTelemetryCollector :> TRUE}

SampleHibernations == {Nil, Ptr([Enabled |-> Ptr(TRUE)])}
SampleResources ==
    << [Name |-> "creds", ResourceRef |-> [APIVersion |-> "v1", Kind |-> "Secret", Name |-> "otlp-creds"]] >>
Cluster(hibernation) ==
    [Shoot |-> [Spec |-> [Hibernation |-> hibernation, Resources |-> SampleResources]]]

\* The provider configs of the Extension: a raw object of another kind, and
\* CollectorConfigs with no exporter enabled and an endpoint that does not
\* parse, with the debug exporter, and with the OTLP HTTP exporter (TLS and
\* bearer token).
CollectorConfigRaw(obj) == [Kind |-> "CollectorConfig", Object |-> obj]
WithExporterField(cfg, exporter, fld, val) ==
    [cfg EXCEPT !.Spec.Exporters[exporter][fld] = val]
CfgDisabled ==
    [ZeroCollectorConfig EXCEPT
        !.Spec.Exporters.DebugExporter.Enabled = Ptr(FALSE),
        !.Spec.Exporters.OTLPGRPCExporter.Enabled = Ptr(FALSE),
        !.Spec.Exporters.OTLPHTTPExporter.Endpoint = NoSchemeURL]
CfgDebug == WithExporterField(ZeroCollectorConfig, "DebugExporter", "Enabled", Ptr(TRUE))
CfgHTTP ==
    [ZeroCollectorConfig EXCEPT
        !.Spec.Exporters.OTLPHTTPExporter.Enabled = Ptr(TRUE),
        !.Spec.Exporters.OTLPHTTPExporter.Endpoint = GoodURL,
        !.Spec.Exporters.OTLPHTTPExporter.Token = Ptr(ResourceReference("creds", "token")),
        !.Spec.Exporters.OTLPHTTPExporter.TLS =
            Ptr([ZeroTLSConfig EXCEPT !.CA = Ptr(ResourceReference("creds", "ca.crt")),
                                      !.Cert = Ptr(ResourceReference("creds", "tls.crt")),
                                      !.Key = Ptr(ResourceReference("creds", "tls.key"))])]
SampleProviderConfigs ==
    {Nil, Ptr([Kind |-> "ExampleConfig", Object |-> ZeroCollectorConfig])}
    \cup {Ptr(CollectorConfigRaw(c)) : c \in {CfgDisabled, CfgDebug, CfgHTTP}}

\* Delete reads neither the provider config nor anything a fault of the
\* reconciliation touches.
DeleteProviderConfigs == {Ptr(CollectorConfigRaw(CfgDebug))}
DeleteFaults == {"none", "secretsmanager.New", "Cleanup", "DeleteForSeed"}

\* The Extensions and faults Restore and Migrate are called with.
RestoreProviderConfigs == {Ptr(CollectorConfigRaw(CfgDisabled)), Ptr(CollectorConfigRaw(CfgHTTP))}
RestoreFaults == {"none", "Generate.server", "DeleteForSeed"}

Extension(namespace, providerConfig) ==
    [Name |-> "otelcol", Namespace |-> namespace, Spec |-> [ProviderConfig |-> providerConfig]]

\* What an operation reads: the actuator's feature gates and the objects of
\* the Extension's namespace.
View(ns) ==
    [gates |-> gardenletFeatureGates, cluster |-> clusters[ns], secrets |-> secrets[ns],
     caRenewalDue |-> caRenewalDue[ns], mr |-> managedResources[ns]]

\* last is the latest call of the actuator: the operation, its Extension, the
\* fault that fired, the error returned and the external calls made; aged
\* tells that CA validity has elapsed since. A change of the Cluster forgets it.
NoCall ==
    [op |-> "none", ex |-> Extension("", Nil), fault |-> "none", err |-> Nil, steps |-> <<>>,
     aged |-> FALSE]

Init ==
    /\ gardenletFeatureGates \in FeatureGateMaps
    /\ clusters = [ns \in Namespaces |-> Nil]
    /\ secrets = [ns \in Namespaces |-> {}]
    /\ caRenewalDue = [ns \in Namespaces |-> FALSE]
    /\ managedResources = [ns \in Namespaces |-> Nil]
    /\ last = NoCall
    /\ vcfg = ZeroCollectorConfig
    /\ vedits = 0
    /\ vcalled = FALSE
    /\ vres = Nil
    /\ collector = Nil
    /\ opts = <<>>
    /\ restConfigDiscoverable = FALSE
    /\ newResult = NotCalled
    /\ run = NotRun
    /\ workers = NoWorkers

\* The faults among faults that can hit an operation: those naming a call
\* it makes when none fails (nofault is its outcome then). A fault that names
\* a call the operation does not get to is no fault.
FaultsOf(faults, nofault) ==
    {f \in faults : f = "none" \/ \E i \in DOMAIN nofault.steps : nofault.steps[i] = f}

\* The state after the call op on ex with the fault, whose outcome is outcome.
Called(op, ex, fault, outcome) ==
    \E out \in {outcome} :
    LET ns == ex.Namespace IN
    /\ out.fired = fault
    /\ secrets' = [secrets EXCEPT ![ns] = out.secrets]
    /\ caRenewalDue' = [caRenewalDue EXCEPT ![ns] = out.caRenewalDue]
    /\ managedResources' = [managedResources EXCEPT ![ns] = out.mr]
    /\ last' = [op |-> op, ex |-> ex, fault |-> out.fired, err |-> out.err, steps |-> out.steps,
                aged |-> FALSE]
    /\ UNCHANGED <<gardenletFeatureGates, clusters, vvars, nvars>>

Reconcile ==
    \E ns \in Namespaces, pc \in SampleProviderConfigs :
        \E fault \in FaultsOf(Faults, ReconcileCall(View(ns), Extension(ns, pc), "none")) :
            Called("Reconcile", Extension(ns, pc), fault, ReconcileCall(View(ns), Extension(ns, pc), fault))

Delete ==
    \E ns \in Namespaces, pc \in DeleteProviderConfigs :
        \E fault \in FaultsOf(DeleteFaults, DeleteCall(View(ns), Extension(ns, pc), "none")) :
            Called("Delete", Extension(ns, pc), fault, DeleteCall(View(ns), Extension(ns, pc), fault))

ForceDelete ==
    \E ns \in Namespaces, pc \in DeleteProviderConfigs :
        \E fault \in FaultsOf(DeleteFaults, ForceDeleteCall(View(ns), Extension(ns, pc), "none")) :
            Called("ForceDelete", Extension(ns, pc), fault, ForceDeleteCall(View(ns), Extension(ns, pc), fault))

Restore ==
    \E ns \in Namespaces, pc \in RestoreProviderConfigs :
        \E fault \in FaultsOf(RestoreFaults, RestoreCall(View(ns), Extension(ns, pc), "none")) :
            Called("Restore", Extension(ns, pc), fault, RestoreCall(View(ns), Extension(ns, pc), fault))

Migrate ==
    \E ns \in Namespaces, pc \in RestoreProviderConfigs :
        \E fault \in FaultsOf(RestoreFaults, MigrateCall(View(ns), Extension(ns, pc), "none")) :
            Called("Migrate", Extension(ns, pc), fault, MigrateCall(View(ns), Extension(ns, pc), fault))

\* gardenlet creates or updates the Cluster resource of a shoot namespace
ClusterApplied ==
    /\ \E ns \in Namespaces, h \in SampleHibernations :
          clusters' = [clusters EXCEPT ![ns] = Ptr(Cluster(h))]
    /\ last' = NoCall
    /\ UNCHANGED <<gardenletFeatureGates, secrets, caRenewalDue, managedResources, vvars, nvars>>

ClusterDeleted ==
    /\ \E ns \in Namespaces :
          /\ clusters[ns] # Nil
          /\ clusters' = [clusters EXCEPT ![ns] = Nil]
    /\ last' = NoCall
    /\ UNCHANGED <<gardenletFeatureGates, secrets, caRenewalDue, managedResources, vvars, nvars>>

\* The extension is restarted with other gardenlet feature gates
\* (WithGardenletFeatures); the objects in the cluster stay.
ActuatorRestarted ==
    /\ \E gates \in FeatureGateMaps :
          /\ gates # gardenletFeatureGates
          /\ gardenletFeatureGates' = gates
    /\ last' = NoCall
    /\ UNCHANGED <<clusters, secrets, caRenewalDue, managedResources, vvars, nvars>>

\* Time passes: the newest CA certificate reaches its renewal time.
CAValidityElapses ==
    /\ \E ns \in Namespaces :
          /\ CurrentGen(secrets[ns], secretNameCACertificate) > 0
          /\ CurrentGen(secrets[ns], secretNameCACertificate) < MaxCAGenerations
          /\ ~caRenewalDue[ns]
          /\ caRenewalDue' = [caRenewalDue EXCEPT ![ns] = TRUE]
    /\ last' = [last EXCEPT !.aged = TRUE]
    /\ UNCHANGED <<gardenletFeatureGates, clusters, secrets, managedResources, vvars, nvars>>

Next ==
    \/ Reconcile
    \/ Delete
    \/ ForceDelete
    \/ Restore
    \/ Migrate
    \/ ClusterApplied
    \/ ClusterDeleted
    \/ ActuatorRestarted
    \/ CAValidityElapses

Spec == Init /\ [][Next]_vars

(***************************************************************************)
(* SpecV: a CollectorConfig is decoded field by field (at most MaxEdits    *)
(* fields differ from the zero value), then Validate is called on it.      *)
(***************************************************************************)
MaxEdits == 3

ExporterNames == {"DebugExporter", "OTLPHTTPExporter", "OTLPGRPCExporter"}
OTLPExporterNames == {"OTLPHTTPExporter", "OTLPGRPCExporter"}
EndpointFields == {"Endpoint", "TracesEndpoint", "MetricsEndpoint", "LogsEndpoint", "ProfilesEndpoint"}
BufferFields == {"ReadBufferSize", "WriteBufferSize"}
TLSRefFields == {"CA", "Cert", "Key"}
SampleURLs == {GoodURL, BareHostURL, NoSchemeURL, BadHostURL}
SampleBufferSizes == {-1, 4096}
SampleRefs == {ResourceReference("creds", "data"), ResourceReference("", "data"),
               ResourceReference("creds", "")}

InitV ==
    /\ vcfg = ZeroCollectorConfig
    /\ vedits = 0
    /\ vcalled = FALSE
    /\ vres = Nil
    /\ collector = Nil
    /\ gardenletFeatureGates = EmptyMap
    /\ clusters = [ns \in Namespaces |-> Nil]
    /\ secrets = [ns \in Namespaces |-> {}]
    /\ caRenewalDue = [ns \in Namespaces |-> FALSE]
    /\ managedResources = [ns \in Namespaces |-> Nil]
    /\ last = NoCall
    /\ opts = <<>>
    /\ restConfigDiscoverable = FALSE
    /\ newResult = NotCalled
    /\ run = NotRun
    /\ workers = NoWorkers

Editing == ~vcalled /\ vedits < MaxEdits

SetEnabled ==
    /\ Editing
    /\ \E e \in ExporterNames, b \in BOOLEAN :
          vcfg' = WithExporterField(vcfg, e, "Enabled", Ptr(b))
    /\ vedits' = vedits + 1
    /\ UNCHANGED <<vcalled, vres, collector, avars, nvars>>

SetEndpoint ==
    /\ Editing
    /\ \/ \E f \in EndpointFields, u \in SampleURLs :
             vcfg' = WithExporterField(vcfg, "OTLPHTTPExporter", f, u)
       \/ vcfg' = WithExporterField(vcfg, "OTLPGRPCExporter", "Endpoint", "example.com:4317")
    /\ vedits' = vedits + 1
    /\ UNCHANGED <<vcalled, vres, collector, avars, nvars>>

SetBufferSize ==
    /\ Editing
    /\ \E e \in OTLPExporterNames, f \in BufferFields, n \in SampleBufferSizes :
          vcfg' = WithExporterField(vcfg, e, f, n)
    /\ vedits' = vedits + 1
    /\ UNCHANGED <<vcalled, vres, collector, avars, nvars>>

SetToken ==
    /\ Editing
    /\ \E e \in OTLPExporterNames, r \in SampleRefs :
          vcfg' = WithExporterField(vcfg, e, "Token", Ptr(r))
    /\ vedits' = vedits + 1
    /\ UNCHANGED <<vcalled, vres, collector, avars, nvars>>

\* a TLS block with no reference, or one more reference in the TLS block
SetTLS ==
    /\ Editing
    /\ \E e \in OTLPExporterNames :
          LET tls == IF vcfg.Spec.Exporters[e].TLS = Nil THEN ZeroTLSConfig
                     ELSE Deref(vcfg.Spec.Exporters[e].TLS) IN
          \/ vcfg' = WithExporterField(vcfg, e, "TLS", Ptr(tls))
          \/ \E f \in TLSRefFields, r \in SampleRefs :
                vcfg' = WithExporterField(vcfg, e, "TLS", Ptr([tls EXCEPT ![f] = Ptr(r)]))
    /\ vedits' = vedits + 1
    /\ UNCHANGED <<vcalled, vres, collector, avars, nvars>>

CallValidate ==
    /\ ~vcalled
    /\ vcalled' = TRUE
    /\ vres' = Validate(vcfg)
    /\ UNCHANGED <<vcfg, vedits, collector, avars, nvars>>

NextV ==
    \/ SetEnabled
    \/ SetEndpoint
    \/ SetBufferSize
    \/ SetToken
    \/ SetTLS
    \/ CallValidate

SpecV == InitV /\ [][NextV]_vars

(***************************************************************************)
(* SpecG: a CollectorConfig is decoded field by field as in SpecV,         *)
(* starting from the zero value or from a config with the OTLP HTTP        *)
(* exporter, its TLS block and its bearer token; when the decoded config   *)
(* passes Validate, Reconcile generates the collector from it              *)
(* (getOtelCollector).                                                     *)
(***************************************************************************)
SampleBaseConfigs == {ZeroCollectorConfig, CfgHTTP}

GenerateCollector ==
    LET cfg == SetDefaults(vcfg) IN
    /\ ~vcalled
    /\ Validate(cfg) = Nil
    /\ vcalled' = TRUE
    /\ \E ns \in Namespaces :
          collector' = Ptr(getOtelCollector(ns,
                               SecretObjectName(Secret(secretNameCABundle, 1)),
                               SecretObjectName(Secret(secretNameClientCertificate, 1)),
                               cfg, SampleResources, FindImage(ImageNameOTelCollector)))
    /\ UNCHANGED <<vcfg, vedits, vres, avars, nvars>>

InitG ==
    /\ vcfg \in SampleBaseConfigs
    /\ vedits = 0
    /\ vcalled = FALSE
    /\ vres = Nil
    /\ collector = Nil
    /\ gardenletFeatureGates = EmptyMap
    /\ clusters = [ns \in Namespaces |-> Nil]
    /\ secrets = [ns \in Namespaces |-> {}]
    /\ caRenewalDue = [ns \in Namespaces |-> FALSE]
    /\ managedResources = [ns \in Namespaces |-> Nil]
    /\ last = NoCall
    /\ opts = <<>>
    /\ restConfigDiscoverable = FALSE
    /\ newResult = NotCalled
    /\ run = NotRun
    /\ workers = NoWorkers

NextG ==
    \/ SetEnabled
    \/ SetEndpoint
    \/ SetBufferSize
    \/ SetToken
    \/ SetTLS
    \/ GenerateCollector

SpecG == InitG /\ [][NextG]_vars

(***************************************************************************)
(* SpecC, SpecH, SpecM: a caller puts together at most MaxOptions options  *)
(* and calls New with them.                                                *)
(***************************************************************************)
MaxOptions == 4

InitN ==
    /\ opts = <<>>
    /\ newResult = NotCalled
    /\ run = NotRun
    /\ workers = NoWorkers
    /\ vcfg = ZeroCollectorConfig
    /\ vedits = 0
    /\ vcalled = FALSE
    /\ vres = Nil
    /\ collector = Nil
    /\ gardenletFeatureGates = EmptyMap
    /\ clusters = [ns \in Namespaces |-> Nil]
    /\ secrets = [ns \in Namespaces |-> {}]
    /\ caRenewalDue = [ns \in Namespaces |-> FALSE]
    /\ managedResources = [ns \in Namespaces |-> Nil]
    /\ last = NoCall

\* One more option is put after those collected so far.
Passing(name, vals) ==
    /\ ~newResult.called
    /\ Len(opts) < MaxOptions
    /\ \E v \in vals : opts' = Append(opts, Option(name, v))
    /\ UNCHANGED <<restConfigDiscoverable, newResult, run, workers, avars, vvars>>

NewCalled(result) ==
    /\ ~newResult.called
    /\ newResult' = result
    /\ UNCHANGED <<opts, restConfigDiscoverable, run, workers, avars, vvars>>

SampleActuators == {Nil, Ptr("actuator")}
SampleNames == {"", "otelcol"}
SampleExtensionClasses == {"shoot", "garden"}

WithActuator == Passing("WithActuator", SampleActuators)
WithName == Passing("WithName", SampleNames)
WithExtensionType == Passing("WithExtensionType", SampleNames)
WithExtensionClass == Passing("WithExtensionClass", SampleExtensionClasses)
WithFinalizerSuffix == Passing("WithFinalizerSuffix", {"custom-finalizer-suffix"})
NewController == NewCalled(ControllerNew(opts))

InitC == InitN /\ restConfigDiscoverable = FALSE

NextC ==
    \/ WithActuator
    \/ WithName
    \/ WithExtensionType
    \/ WithExtensionClass
    \/ WithFinalizerSuffix
    \/ NewController

SpecC == InitC /\ [][NextC]_vars

SampleNamespaces == {"", "garden"}
SampleRenewIntervals == {10, 60}

WithExtensionName == Passing("WithExtensionName", SampleNames)
WithLeaseNamespace == Passing("WithLeaseNamespace", SampleNamespaces)
WithRenewInterval == Passing("WithRenewInterval", SampleRenewIntervals)
WithClock == Passing("WithClock", {"FakeClock"})
NewHeartbeat == NewCalled(HeartbeatNew(opts))

InitH == InitN /\ restConfigDiscoverable = FALSE

NextH ==
    \/ WithExtensionName
    \/ WithLeaseNamespace
    \/ WithRenewInterval
    \/ WithClock
    \/ NewHeartbeat

SpecH == InitH /\ [][NextH]_vars

SampleRestConfigs == {Nil, Ptr("rest.Config")}
SampleMaxConcurrentReconciles == {1, 42}
SampleControllerOptions ==
    {[MaxConcurrentReconciles |-> 0, RecoverPanic |-> Ptr(TRUE)],
     [MaxConcurrentReconciles |-> 10, RecoverPanic |-> Nil]}
MgrFaults == {"none", "manager.New"}

WithConfig == Passing("WithConfig", SampleRestConfigs)
WithAddToScheme == Passing("WithAddToScheme", {AddToSchemeOK, AddToSchemeFailing})
WithInstallScheme == Passing("WithInstallScheme", {"otelcol.extensions.gardener.cloud"})
WithMaxConcurrentReconciles == Passing("WithMaxConcurrentReconciles", SampleMaxConcurrentReconciles)
WithControllerOptions == Passing("WithControllerOptions", SampleControllerOptions)
NewManager == \E fault \in MgrFaults : NewCalled(MgrNew(opts, restConfigDiscoverable, fault))

\* The process runs in a cluster or with a kubeconfig, or with neither.
InitM == InitN /\ restConfigDiscoverable \in BOOLEAN

NextM ==
    \/ WithConfig
    \/ WithAddToScheme
    \/ WithInstallScheme
    \/ WithMaxConcurrentReconciles
    \/ WithControllerOptions
    \/ NewManager

SpecM == InitM /\ [][NextM]_vars

(***************************************************************************)
(* SpecR: the manager command (runManager) with the flags it parsed: it    *)
(* creates the manager and the heartbeat controller (getManager), the      *)
(* actuator and the extension controller, and starts the manager. pc is    *)
(* the call it makes next; any call into controller-runtime may fail.      *)
(***************************************************************************)
DefaultExtensionName == "gardener-extension-otelcol"
SampleFlags ==
    [extensionName : {"", DefaultExtensionName},
     heartbeatNamespace : {"", DefaultExtensionName},
     heartbeatRenewInterval : {30},
     maxConcurrentReconciles : {1, 5},
     gardenletFeatureGates : FeatureGateMaps]

InitR ==
    /\ run \in {[NotRun EXCEPT !.flags = f, !.pc = "mgr.New"] : f \in SampleFlags}
    /\ workers = NoWorkers
    /\ restConfigDiscoverable \in BOOLEAN
    /\ opts = <<>>
    /\ newResult = NotCalled
    /\ vcfg = ZeroCollectorConfig
    /\ vedits = 0
    /\ vcalled = FALSE
    /\ vres = Nil
    /\ collector = Nil
    /\ gardenletFeatureGates = EmptyMap
    /\ clusters = [ns \in Namespaces |-> Nil]
    /\ secrets = [ns \in Namespaces |-> {}]
    /\ caRenewalDue = [ns \in Namespaces |-> FALSE]
    /\ managedResources = [ns \in Namespaces |-> Nil]
    /\ last = NoCall

\* A variant that goes on after a call that failed: C26_StartAfterSetup
\* tells it from RunStep.
RunStepIgnoringError(call, err, next) ==
    /\ run.pc = call
    /\ run' = [run EXCEPT !.calls = Append(@, call),
                          !.err = IF run.err = <<>> THEN err ELSE run.err,
                          !.pc = next,
                          !.started = @ \/ call = "m.Start"]
    /\ UNCHANGED <<opts, restConfigDiscoverable, newResult, workers, avars, vvars>>

\* The command makes the call it is at: it returns err when the call failed
\* and goes on to next otherwise.
RunStep(call, err, next) ==
    /\ run.pc = call
    /\ run' = [run EXCEPT !.calls = Append(@, call),
                          !.err = err,
                          !.pc = IF err = Nil THEN next ELSE "returned",
                          !.started = @ \/ call = "m.Start"]
    /\ UNCHANGED <<opts, restConfigDiscoverable, newResult, workers, avars, vvars>>

\* A call into controller-runtime: nil, or the error wrapped with msg
CallErrors(msg) == {Nil, Errorf(msg)}

\* getManager: mgr.New with the options of the flags; its error is returned as it is
ManagerOptions(f) ==
    << Option("WithAddToScheme", AddToSchemeOK), Option("WithAddToScheme", AddToSchemeOK),
       Option("WithInstallScheme", "otelcol.extensions.gardener.cloud"),
       Option("WithMaxConcurrentReconciles", f.maxConcurrentReconciles) >>
RunNewManager ==
    \E fault \in MgrFaults :
        RunStep("mgr.New", MgrNew(ManagerOptions(run.flags), restConfigDiscoverable, fault).err,
                "heartbeat.New")

HeartbeatOptions(f) ==
    << Option("WithExtensionName", f.extensionName),
       Option("WithLeaseNamespace", f.heartbeatNamespace),
       Option("WithRenewInterval", f.heartbeatRenewInterval) >>
RunNewHeartbeat ==
    RunStep("heartbeat.New",
            IF HeartbeatNew(HeartbeatOptions(run.flags)).err = Nil THEN Nil
            ELSE Errorf("failed to create heartbeat controller"),
            "hb.SetupWithManager")

RunSetupHeartbeat ==
    \E err \in CallErrors("failed to setup heartbeat controller") :
        RunStep("hb.SetupWithManager", err, "actuator.New")

\* actuator.New: none of the options passed returns an error
RunNewActuator == RunStep("actuator.New", Nil, "controller.New")

ControllerOptions ==
    << Option("WithActuator", Ptr("actuator")), Option("WithName", "otelcol"),
       Option("WithExtensionType", "otelcol"),
       Option("WithFinalizerSuffix", "gardener-extension-otelcol"),
       Option("WithExtensionClass", "shoot") >>
RunNewController ==
    RunStep("controller.New",
            IF ControllerNew(ControllerOptions).err = Nil THEN Nil
            ELSE Errorf("failed to create a controller"),
            "c.SetupWithManager")

RunSetupController ==
    \E err \in CallErrors("failed to setup controller with manager") :
        RunStep("c.SetupWithManager", err, "m.Start")

\* m.Start blocks until the context is done or the manager fails
RunStartManager ==
    \E err \in CallErrors("failed to start manager") :
        RunStep("m.Start", err, "returned")

NextR ==
    \/ RunNewManager
    \/ RunNewHeartbeat
    \/ RunSetupHeartbeat
    \/ RunNewActuator
    \/ RunNewController
    \/ RunSetupController
    \/ RunStartManager

SpecR == InitR /\ [][NextR]_vars

(***************************************************************************)
(* SpecW: the extension controller runs the actuator with up to            *)
(* MaxConcurrentReconciles workers. A worker takes the Extension of a      *)
(* namespace no other worker holds and runs one operation on it, one call  *)
(* to the API server or the secrets manager at a time; the workers'        *)
(* calls interleave.                                                       *)
(***************************************************************************)
ShootNamespaces == {"shoot--local--a", "shoot--local--b"}
SampleWorkerLimits == {1, 2}
WorkerOps == {"Reconcile", "Delete", "ForceDelete", "Restore", "Migrate"}
WorkerProviderConfigs == {Nil, Ptr(CollectorConfigRaw(CfgDebug))}
WorkerClusters == {Nil, Ptr(Cluster(Nil)), Ptr(Cluster(Ptr([Enabled |-> Ptr(TRUE)])))}

\* What an operation reads in a namespace where nothing exists yet.
EmptyView == [gates |-> EmptyMap, cluster |-> Nil, secrets |-> {}, caRenewalDue |-> FALSE, mr |-> Nil]

\* A worker between two calls: the operation and its Extension, the view of
\* the namespace when the operation began and the namespaces other workers
\* held then, and the operation's local variables (the secrets manager, the
\* CA generation it issues, the decoded config, the certificate secrets, the
\* error).
IdleWorker ==
    [pc |-> "idle", op |-> "none", ex |-> Extension("", Nil), start |-> EmptyView, beside |-> {},
     sm |-> "", gen |-> 0, cfg |-> ZeroCollectorConfig, server |-> Secret("", 0),
     client |-> Secret("", 0), err |-> Nil]

Busy(w) == w.pc \notin {"idle", "returned"}

\* A variant in which the actuator keeps one secrets manager, made for the
\* first namespace it saw: C27_InterleavingIsSerial tells it from
\* newSecretsManager.
SharedSecretsManager(namespace) == "shoot--local--a"

\* newSecretsManager(ctx, log, namespace): a manager for the secrets of
\* secretsManagerIdentity in the namespace.
newSecretsManager(namespace) == namespace

InitW ==
    /\ gardenletFeatureGates \in FeatureGateMaps
    /\ clusters \in [ShootNamespaces -> WorkerClusters]
    /\ secrets = [ns \in ShootNamespaces |-> {}]
    /\ caRenewalDue = [ns \in ShootNamespaces |-> FALSE]
    /\ managedResources = [ns \in ShootNamespaces |-> Nil]
    /\ workers \in {[max |-> m, of |-> [ns \in ShootNamespaces |-> IdleWorker]] : m \in SampleWorkerLimits}
    /\ last = NoCall
    /\ vcfg = ZeroCollectorConfig
    /\ vedits = 0
    /\ vcalled = FALSE
    /\ vres = Nil
    /\ collector = Nil
    /\ opts = <<>>
    /\ restConfigDiscoverable = FALSE
    /\ newResult = NotCalled
    /\ run = NotRun

\* The worker of ns moves from pc to w, leaving the secrets secs, the renewal
\* flags due and the managed resources mrs.
WorkerStep(ns, pc, w, secs, due, mrs) ==
    /\ workers.of[ns].pc = pc
    /\ workers' = [workers EXCEPT !.of[ns] = w]
    /\ secrets' = secs
    /\ caRenewalDue' = due
    /\ managedResources' = mrs
    /\ UNCHANGED <<gardenletFeatureGates, clusters, last, vvars, opts, restConfigDiscoverable,
                   newResult, run>>

\* The operation returns err.
WorkerReturns(w, err) == [w EXCEPT !.pc = "returned", !.err = err]

\* A free worker takes the Extension of a namespace no worker holds and
\* enters an operation. Delete and ForceDelete, and the others without the
\* feature gate, take the path of Delete.
WorkerBegins ==
    \E ns \in ShootNamespaces, op \in WorkerOps, pc \in WorkerProviderConfigs :
        /\ ~Busy(workers.of[ns])
        /\ Cardinality({n \in ShootNamespaces : Busy(workers.of[n])}) < workers.max
        /\ WorkerStep(ns, workers.of[ns].pc,
                      [IdleWorker EXCEPT !.pc = "secretsmanager.New", !.op = op,
                                         !.ex = Extension(ns, pc), !.start = View(ns),
                                         !.beside = {n \in ShootNamespaces : Busy(workers.of[n])}],
                      secrets, caRenewalDue, managedResources)

\* sm, err := newSecretsManager(ctx, log, ex.Namespace)
WorkerNewSecretsManager ==
    \E ns \in ShootNamespaces :
        LET w == workers.of[ns]
            sm == newSecretsManager(w.ex.Namespace)
            delete == w.op \in {"Delete", "ForceDelete"} \/ ~FeatureGateEnabled(gardenletFeatureGates)
        IN
        WorkerStep(ns, "secretsmanager.New",
                   [w EXCEPT !.sm = sm, !.gen = CAGenToIssue(secrets[sm], caRenewalDue[sm]),
                             !.pc = IF delete THEN "Cleanup" ELSE "GetCluster"],
                   secrets, caRenewalDue, managedResources)

\* extensionscontroller.GetCluster(ctx, a.client, ex.Namespace), the
\* hibernation check, and the decoding and validation of the provider config
WorkerGetCluster ==
    \E ns \in ShootNamespaces :
        LET w == workers.of[ns]
            cluster == clusters[w.ex.Namespace]
            decoded == DecodeInto(Deref(w.ex.Spec.ProviderConfig))
            next ==
                IF cluster = Nil THEN WorkerReturns(w, Errorf("failed to get cluster"))
                ELSE IF HibernationIsEnabled(Deref(cluster).Shoot) THEN WorkerReturns(w, Nil)
                ELSE IF w.ex.Spec.ProviderConfig = Nil
                THEN WorkerReturns(w, Errorf("no provider config specified"))
                ELSE IF decoded.err # Nil
                THEN WorkerReturns(w, Errorf("invalid provider spec configuration"))
                ELSE IF Validate(decoded.cfg) # Nil THEN WorkerReturns(w, Validate(decoded.cfg))
                ELSE [w EXCEPT !.cfg = decoded.cfg, !.pc = "Generate.ca"]
        IN
        WorkerStep(ns, "GetCluster", next, secrets, caRenewalDue, managedResources)

\* sm.Generate of the CA
WorkerGenerateCA ==
    \E ns \in ShootNamespaces :
        LET w == workers.of[ns] IN
        WorkerStep(ns, "Generate.ca", [w EXCEPT !.pc = "Generate.server"],
                   [secrets EXCEPT ![w.sm] = GenerateCA(@, w.gen)],
                   [caRenewalDue EXCEPT ![w.sm] = FALSE], managedResources)

\* sm.Generate of the target allocator's server certificate
WorkerGenerateServer ==
    \E ns \in ShootNamespaces :
        LET w == workers.of[ns]
            serverSecret == Secret(secretNameServerCertificate, ServerSignerGen(secrets[w.sm], w.gen))
        IN
        WorkerStep(ns, "Generate.server", [w EXCEPT !.pc = "Generate.client", !.server = serverSecret],
                   [secrets EXCEPT ![w.sm] = @ \cup {serverSecret}], caRenewalDue, managedResources)

\* sm.Generate of the collector's client certificate
WorkerGenerateClient ==
    \E ns \in ShootNamespaces :
        LET w == workers.of[ns]
            clientSecret == Secret(secretNameClientCertificate, ClientSignerGen(secrets[w.sm], w.gen))
        IN
        WorkerStep(ns, "Generate.client", [w EXCEPT !.pc = "CreateForSeed", !.client = clientSecret],
                   [secrets EXCEPT ![w.sm] = @ \cup {clientSecret}], caRenewalDue, managedResources)

\* The objects are built from the worker's local variables and
\* managedresources.CreateForSeed(ctx, a.client, ex.Namespace, ...) writes
\* the managed resource.
WorkerCreateForSeed ==
    \E ns \in ShootNamespaces :
        LET w == workers.of[ns]
            namespace == w.ex.Namespace
            data == ManagedResourceObjects(namespace,
                        SecretObjectName(Secret(secretNameCABundle, w.gen)),
                        SecretObjectName(w.server), SecretObjectName(w.client), w.cfg,
                        Deref(clusters[namespace]).Shoot.Spec.Resources,
                        FindImage(ImageNameOTelTargetAllocator), FindImage(ImageNameOTelCollector))
        IN
        WorkerStep(ns, "CreateForSeed", WorkerReturns(w, Nil), secrets, caRenewalDue,
                   [managedResources EXCEPT ![namespace] = Ptr(ManagedResource(namespace, managedResourceName, data))])

\* sm.Cleanup(ctx)
WorkerCleanup ==
    \E ns \in ShootNamespaces :
        LET w == workers.of[ns] IN
        WorkerStep(ns, "Cleanup", [w EXCEPT !.pc = "DeleteForSeed"],
                   [secrets EXCEPT ![w.sm] = Cleanup(@)],
                   [caRenewalDue EXCEPT ![w.sm] = FALSE], managedResources)

\* managedresources.DeleteForSeed(ctx, a.client, ex.Namespace, ...)
WorkerDeleteForSeed ==
    \E ns \in ShootNamespaces :
        LET w == workers.of[ns] IN
        WorkerStep(ns, "DeleteForSeed", WorkerReturns(w, Nil), secrets, caRenewalDue,
                   [managedResources EXCEPT ![w.ex.Namespace] = Nil])

NextW ==
    \/ WorkerBegins
    \/ WorkerNewSecretsManager
    \/ WorkerGetCluster
    \/ WorkerGenerateCA
    \/ WorkerGenerateServer
    \/ WorkerGenerateClient
    \/ WorkerCreateForSeed
    \/ WorkerCleanup
    \/ WorkerDeleteForSeed

SpecW == InitW /\ [][NextW]_vars

(***************************************************************************)
(* Properties of Validate (SpecV).                                         *)
(***************************************************************************)
\* The places of a CollectorConfig that hold a resource reference, with the
\* field path Validate reports for each: the token of an OTLP exporter and
\* the CA, Cert and Key of its TLS block.
ExporterPath(e) ==
    IF e = "OTLPHTTPExporter" THEN "spec.exporters.otlp_http" ELSE "spec.exporters.otlp_grpc"
TLSFieldPath(f) == IF f = "CA" THEN ".tls.ca" ELSE IF f = "Cert" THEN ".tls.cert" ELSE ".tls.key"
RefSlots == {<<e, f>> : e \in OTLPExporterNames, f \in {"Token"} \cup TLSRefFields}
SlotPath(slot) ==
    ExporterPath(slot[1]) \o (IF slot[2] = "Token" THEN ".token" ELSE TLSFieldPath(slot[2]))
\* The reference at a slot; a slot of a nil TLS block holds none.
SlotRef(cfg, slot) ==
    LET exp == cfg.Spec.Exporters[slot[1]] IN
    IF slot[2] = "Token" THEN exp.Token
    ELSE IF exp.TLS = Nil THEN Nil ELSE Deref(exp.TLS)[slot[2]]
SlotEmpty(cfg, slot) ==
    /\ SlotRef(cfg, slot) # Nil
    /\ \/ Deref(SlotRef(cfg, slot)).ResourceRef.Name = ""
       \/ Deref(SlotRef(cfg, slot)).ResourceRef.DataKey = ""
ErrsOf(err) == IF err = Nil THEN {} ELSE {Deref(err).Errs[i] : i \in 1..Len(Deref(err).Errs)}
ReportedAt(err, type, path) == \E e \in ErrsOf(err) : e.Type = type /\ e.Field = path

\* C9: Validate rejects a CollectorConfig when a non-nil resource reference
\* (a token, or the CA, Cert or Key of a non-nil TLS block) has an empty
\* name or an empty dataKey, with an invalid-value error at the path of that
\* reference; a nil reference, and a reference with both set, is not reported.
C9_EmptyReferenceRejected ==
    vcalled =>
        \A slot \in RefSlots :
            /\ SlotEmpty(vcfg, slot) =>
                   vres # Nil /\ ReportedAt(vres, "FieldValueInvalid", SlotPath(slot))
            /\ ~SlotEmpty(vcfg, slot) =>
                   ~ReportedAt(vres, "FieldValueInvalid", SlotPath(slot))

\* Validate was called on a config whose TLS block holds a Cert reference
\* with a name and no dataKey beside a nil CA, and an exporter is enabled:
\* the error reports the Cert and nothing else.
C9_Witness ==
    /\ vcalled
    /\ AnyExporterEnabled(vcfg)
    /\ SlotRef(vcfg, <<"OTLPHTTPExporter", "Cert">>) = Ptr(ResourceReference("creds", ""))
    /\ SlotRef(vcfg, <<"OTLPHTTPExporter", "CA">>) = Nil
    /\ vres # Nil
    /\ ErrsOf(vres) = {FieldInvalid("spec.exporters.otlp_http.tls.cert", "name or dataKey is empty")}

\* The number of checks of Validate a CollectorConfig violates, counted
\* check by check from the configuration alone.
Count(b) == IF b THEN 1 ELSE 0
ViolationCount(cfg) ==
    LET exps == cfg.Spec.Exporters
        enabled(e) == exps[e].Enabled = Ptr(TRUE)
    IN
      Count(~(enabled("DebugExporter") \/ enabled("OTLPHTTPExporter") \/ enabled("OTLPGRPCExporter")))
    + Cardinality({f \in EndpointFields : exps.OTLPHTTPExporter[f] \in {NoSchemeURL, BadHostURL}})
    + Cardinality({<<e, f>> \in OTLPExporterNames \X BufferFields : exps[e][f] < 0})
    + Cardinality({slot \in RefSlots : SlotEmpty(cfg, slot)})
    + Count(enabled("OTLPGRPCExporter") /\ exps.OTLPGRPCExporter.Endpoint = "")

\* C10: Validate returns nil exactly when the config violates none of its
\* checks (an exporter enabled, OTLP HTTP endpoints that parse when set,
\* non-negative buffer sizes, resource references with name and dataKey, a
\* gRPC endpoint when the gRPC exporter is enabled), and otherwise an
\* aggregate with one error for each violated check: no check is skipped
\* because an earlier one failed.
C10_ValidateNilIffNoViolation ==
    vcalled =>
        /\ (vres = Nil) <=> (ViolationCount(vcfg) = 0)
        /\ vres # Nil =>
               /\ Len(Deref(vres).Errs) = ViolationCount(vcfg)
               /\ Cardinality(ErrsOf(vres)) = ViolationCount(vcfg)

\* Validate was called on a config that violates three different checks (no
\* exporter, an endpoint that does not parse, a negative buffer size) and
\* returned three errors.
C10_Witness ==
    /\ vcalled
    /\ ~AnyExporterEnabled(vcfg)
    /\ \E f \in EndpointFields : URLParseFails(vcfg.Spec.Exporters.OTLPHTTPExporter[f])
    /\ \E e \in OTLPExporterNames, f \in BufferFields : vcfg.Spec.Exporters[e][f] < 0
    /\ vres # Nil
    /\ Len(Deref(vres).Errs) = 3

\* Validate was called on a config with the OTLP HTTP exporter enabled and
\* every endpoint empty, and accepted it.
C10_WitnessEmptyEndpoints ==
    /\ vcalled
    /\ IsEnabled(vcfg.Spec.Exporters.OTLPHTTPExporter)
    /\ \A f \in EndpointFields : vcfg.Spec.Exporters.OTLPHTTPExporter[f] = ""
    /\ vres = Nil

(***************************************************************************)
(* Properties of the actuator (Spec).  last describes the latest call and  *)
(* the state is the one it left (a change of the Cluster or of the feature *)
(* gates forgets the call); in a step, last' with aged false describes the *)
(* call the step makes and the unprimed variables the state it started in. *)
(***************************************************************************)
LastNs == last.ex.Namespace
GateOn == gardenletFeatureGates = (FeatureOpenTelemetryCollector :> TRUE)
ErrContains(err, msg) == err # Nil /\ Deref(err).Msg = msg
ClusterExists(ns) == clusters[ns] # Nil
NotHibernated(ns) ==
    LET h == Deref(clusters[ns]).Shoot.Spec.Hibernation IN
    h = Nil \/ Deref(h).Enabled \in {Nil, Ptr(FALSE)}
HasManagedResource(ns) ==
    /\ managedResources[ns] # Nil
    /\ Deref(managedResources[ns]).Name = "external-otelcol"
    /\ Deref(managedResources[ns]).Namespace = ns
    /\ Deref(managedResources[ns]).Class = "seed"
Decodes(pc) == pc # Nil /\ Deref(pc).Kind = "CollectorConfig"
Decoded(pc) == SetDefaults(Deref(pc).Object)
ValidProviderConfig(pc) == Decodes(pc) /\ ViolationCount(Decoded(pc)) = 0
NoExporterConfig(pc) ==
    /\ Decodes(pc)
    /\ \A e \in ExporterNames : Decoded(pc).Spec.Exporters[e].Enabled # Ptr(TRUE)
CallOf(ops) == last'.op \in ops /\ ~last'.aged
CallNs == last'.ex.Namespace

\* Reconcile, called with no external call failing on an Extension with a
\* valid provider config whose Cluster exists and is not hibernated,
\* returned nil and left the managed resource.
ReconcileSucceeded ==
    (/\ last.op = "Reconcile"
     /\ last.fault = "none"
     /\ ValidProviderConfig(last.ex.Spec.ProviderConfig)
     /\ ClusterExists(LastNs)
     /\ NotHibernated(LastNs))
    => last.err = Nil /\ HasManagedResource(LastNs)

C4_DeleteIdempotent ==
    \A ns \in Namespaces :
        LET d == DeleteCall(View(ns), Extension(ns, Nil), "none") IN
        /\ d.err = Nil
        /\ d.mr = Nil
        /\ (last.op = "Delete" /\ LastNs = ns /\ last.fault = "none") => last.err = Nil
        /\ (last.op = "Delete" /\ LastNs = ns /\ last.err = Nil) =>
               /\ managedResources[ns] = Nil
               /\ d.secrets = secrets[ns]
               /\ d.caRenewalDue = caRenewalDue[ns]

\* Delete returned nil with the feature gate enabled and a Cluster present:
\* the deletion of the managed resource was asked for and none is left.
C4_Witness ==
    /\ last.op = "Delete"
    /\ GateOn
    /\ ClusterExists(LastNs)
    /\ last.err = Nil
    /\ last.steps = <<"secretsmanager.New", "Cleanup", "DeleteForSeed">>
    /\ managedResources[LastNs] = Nil

\* C5: a ForceDelete returns the error and leaves the secrets and the
\* managed resource that Delete returns and leaves when called in the same
\* state on the same Extension with the same call failing.
C5_ForceDeleteIsDelete ==
    [][CallOf({"ForceDelete"}) =>
         LET d == DeleteCall(View(CallNs), last'.ex, last'.fault) IN
         /\ last'.err = d.err
         /\ last'.steps = d.steps
         /\ secrets'[CallNs] = d.secrets
         /\ caRenewalDue'[CallNs] = d.caRenewalDue
         /\ managedResources'[CallNs] = d.mr]_vars

\* ForceDelete cleaned the secrets up and failed to delete the managed
\* resource, which is still there.
C5_Witness ==
    /\ last.op = "ForceDelete"
    /\ last.fault = "DeleteForSeed"
    /\ last.err # Nil
    /\ secrets[LastNs] = {}
    /\ HasManagedResource(LastNs)

\* A Restore or Migrate returns the error and leaves the secrets and the
\* managed resource that Reconcile returns and leaves when called in the
\* same state on the same Extension with the same call failing.
RestoreMigrateAsReconcile ==
    CallOf({"Restore", "Migrate"}) =>
        LET r == ReconcileCall(View(CallNs), last'.ex, last'.fault) IN
        /\ last'.err = r.err
        /\ last'.steps = r.steps
        /\ secrets'[CallNs] = r.secrets
        /\ caRenewalDue'[CallNs] = r.caRenewalDue
        /\ managedResources'[CallNs] = r.mr

SecondReconcileChangesNothing ==
    LET again == ReconcileCall(View(LastNs), last.ex, "none") IN
    /\ again.err = Nil
    /\ again.mr = managedResources[LastNs]
    /\ again.secrets = secrets[LastNs]

RejectsNoExporter(err, cfg) ==
    /\ err # Nil
    /\ err = Validate(cfg)
    /\ ReportedAt(err, "FieldValueRequired", "spec.exporters")

DefaultedExporterNames == {"DebugExporter", "OTLPHTTPExporter"}

\* C11: an exporter is disabled by default. IsEnabled of the debug and of
\* the OTLP HTTP exporter config is false when Enabled is nil and otherwise
\* the value Enabled points to, and the default of the API version (false
\* for an Enabled that is not set) does not change it; Validate, which asks
\* IsEnabled, reports that no exporter is enabled exactly when no Enabled
\* points to true.
C11_DisabledByDefault ==
    /\ \A e \in DefaultedExporterNames :
          LET exporter == vcfg.Spec.Exporters[e] IN
          /\ exporter.Enabled = Nil => IsEnabled(exporter) = FALSE
          /\ exporter.Enabled # Nil => IsEnabled(exporter) = exporter.Enabled[1]
          /\ IsEnabled(SetDefaults(vcfg).Spec.Exporters[e]) = IsEnabled(exporter)
    /\ vcalled =>
          (ReportedAt(vres, "FieldValueRequired", "spec.exporters")
              <=> \A e \in ExporterNames : vcfg.Spec.Exporters[e].Enabled # Ptr(TRUE))

\* Validate was called on a config whose debug exporter is switched on while
\* Enabled of the OTLP HTTP exporter is not set, and found an exporter
\* enabled; only the debug exporter is in the generated exporters.
C11_Witness ==
    /\ vcalled
    /\ vcfg.Spec.Exporters.DebugExporter.Enabled = Ptr(TRUE)
    /\ vcfg.Spec.Exporters.OTLPHTTPExporter.Enabled = Nil
    /\ vcfg.Spec.Exporters.OTLPGRPCExporter.Enabled = Nil
    /\ ~ReportedAt(vres, "FieldValueRequired", "spec.exporters")
    /\ DOMAIN getOtelExporters(vcfg) = {"debug"}

(***************************************************************************)
(* Properties of the constructors (SpecC, SpecH, SpecM).                   *)
(***************************************************************************)
\* The argument of the last option of the given name among os, def when no
\* such option was passed.
RECURSIVE LastArg(_, _, _)
LastArg(os, name, def) ==
    IF os = <<>> THEN def
    ELSE IF os[Len(os)].opt = name THEN os[Len(os)].val
    ELSE LastArg(SubSeq(os, 1, Len(os) - 1), name, def)
Passed(os, name) == \E i \in DOMAIN os : os[i].opt = name
NoOptionTwice(os) == \A i, j \in DOMAIN os : os[i].opt = os[j].opt => i = j
Reordered(os, p) == [i \in DOMAIN os |-> os[p[i]]]
ErrIs(err, sentinel) == err # Nil /\ Deref(err).Wraps = sentinel

\* What the options leave missing for a Controller, the first in the order
\* actuator, name, extension type, extension class; "" when nothing is.
MissingOfController(os) ==
    IF LastArg(os, "WithActuator", Nil) = Nil THEN "missing actuator implementation"
    ELSE IF LastArg(os, "WithName", "") = "" THEN "missing controller name"
    ELSE IF LastArg(os, "WithExtensionType", "") = "" THEN "missing extension type"
    ELSE IF ~Passed(os, "WithExtensionClass") THEN "missing extension class"
    ELSE ""

\* C12: controller.New returns a nil Controller and an error that is
\* ErrInvalidController and names the first item missing in the order
\* actuator, name, extension type, extension class; it returns a Controller
\* and a nil error exactly when all four are set; and what it returns for
\* options of different names does not depend on the order they come in.
C12_ControllerNewValidates ==
    newResult.called =>
        LET missing == MissingOfController(opts) IN
        /\ missing # "" =>
               /\ newResult.obj = Nil
               /\ ErrIs(newResult.err, ErrInvalidController)
               /\ ErrContains(newResult.err, missing)
        /\ missing = "" => newResult.obj # Nil /\ newResult.err = Nil
        /\ NoOptionTwice(opts) => 
               \A p \in Permutations(DOMAIN opts) : ControllerNew(Reordered(opts, p)) = newResult

\* New returned a Controller for four options that came with the extension
\* class first and the actuator last; its finalizer suffix is the name.
C12_Witness ==
    /\ newResult.called
    /\ Len(opts) = 4
    /\ opts[1].opt = "WithExtensionClass"
    /\ opts[4].opt = "WithActuator"
    /\ newResult.err = Nil
    /\ newResult.obj # Nil
    /\ Deref(newResult.obj).finalizerSuffix = "otelcol"

\* C13: heartbeat.New returns a nil Heartbeat and an error that is
\* ErrInvalidHeartbeat, with "missing extension name" when the extension
\* name is empty (whatever the namespace) and with "missing lease namespace"
\* when only the namespace is empty; it returns a Heartbeat and a nil error
\* exactly when both are non-empty.
C13_HeartbeatNewValidates ==
    newResult.called =>
        LET name == LastArg(opts, "WithExtensionName", "")
            namespace == LastArg(opts, "WithLeaseNamespace", "")
        IN
        /\ name = "" =>
               /\ newResult.obj = Nil
               /\ ErrIs(newResult.err, ErrInvalidHeartbeat)
               /\ ErrContains(newResult.err, "missing extension name")
        /\ (name # "" /\ namespace = "") =>
               /\ newResult.obj = Nil
               /\ ErrIs(newResult.err, ErrInvalidHeartbeat)
               /\ ErrContains(newResult.err, "missing lease namespace")
        /\ (newResult.obj # Nil /\ newResult.err = Nil) <=> (name # "" /\ namespace # "")
        /\ (newResult.obj # Nil) <=> (newResult.err = Nil)

\* New was called with a namespace and a renew interval but an empty
\* extension name after a non-empty one, and reported the name.
C13_Witness ==
    /\ newResult.called
    /\ Passed(opts, "WithRenewInterval")
    /\ LastArg(opts, "WithLeaseNamespace", "") = "garden"
    /\ Len(opts) = 4
    /\ opts[1].opt = "WithExtensionName"
    /\ opts[1].val = "otelcol"
    /\ LastArg(opts, "WithExtensionName", "") = ""
    /\ ErrContains(newResult.err, "missing extension name")

\* The calls of a name among the calls made.
Made(steps, call) == \E i \in DOMAIN steps : steps[i] = call
NoRestConfigOption(os) == LastArg(os, "WithConfig", Nil) = Nil
SchemeFails(os) == \E i \in DOMAIN os : os[i].opt = "WithAddToScheme" /\ os[i].val.fails

\* C14 as stated: without a rest.Config option and with nothing to discover
\* New returns nil and "failed to get rest config", whatever the other
\* options; with a rest.Config no discovery is attempted.
C14_Original ==
    newResult.called =>
        /\ (NoRestConfigOption(opts) /\ ~restConfigDiscoverable) =>
               newResult.obj = Nil /\ ErrContains(newResult.err, "failed to get rest config")
        /\ ~NoRestConfigOption(opts) => ~Made(newResult.steps, "config.GetConfig")

\* C14: mgr.New called without a rest.Config option, when no configuration
\* can be discovered, returns a nil manager and an error; the error is
\* "failed to get rest config" unless a function given with WithAddToScheme
\* failed before, in which case it is "failed to add scheme" and no
\* discovery was attempted.  When a rest.Config is supplied with WithConfig no
\* discovery is attempted and that config is the one the manager gets.
C14_MgrNewRestConfig ==
    newResult.called =>
        /\ (NoRestConfigOption(opts) /\ ~restConfigDiscoverable) =>
               /\ newResult.obj = Nil
               /\ newResult.err # Nil
               /\ ~SchemeFails(opts) =>
                      /\ ErrContains(newResult.err, "failed to get rest config")
                      /\ Made(newResult.steps, "config.GetConfig")
                      /\ ~Made(newResult.steps, "manager.New")
               /\ SchemeFails(opts) =>
                      /\ ErrContains(newResult.err, "failed to add scheme")
                      /\ ~Made(newResult.steps, "config.GetConfig")
        /\ ~NoRestConfigOption(opts) =>
               /\ ~Made(newResult.steps, "config.GetConfig")
               /\ newResult.obj # Nil =>
                      Deref(newResult.obj).Config = LastArg(opts, "WithConfig", Nil)

\* New was called with an AddToScheme function that succeeds and no
\* rest.Config where none can be discovered: it tried the discovery and
\* returned "failed to get rest config".
C14_Witness ==
    /\ newResult.called
    /\ ~restConfigDiscoverable
    /\ NoRestConfigOption(opts)
    /\ Passed(opts, "WithAddToScheme")
    /\ ~SchemeFails(opts)
    /\ newResult.obj = Nil
    /\ ErrContains(newResult.err, "failed to get rest config")
    /\ Made(newResult.steps, "config.GetConfig")

(***************************************************************************)
(* More properties of the actuator (Spec).                                 *)
(***************************************************************************)
ReconcileOps == {"Reconcile", "Restore", "Migrate"}
GenerationSteps == {"Generate.ca", "Generate.server", "Generate.client"}
StepSet(steps) == {steps[i] : i \in DOMAIN steps}
Hibernated(ns) == ClusterExists(ns) /\ ~NotHibernated(ns)

C16_HibernatedReconcileIsNoop ==
    [][(/\ CallOf({"Reconcile"})
        /\ GateOn
        /\ last'.fault \notin {"secretsmanager.New", "GetCluster"}
        /\ Hibernated(CallNs))
       => /\ last'.err = Nil
          /\ managedResources' = managedResources
          /\ secrets' = secrets
          /\ caRenewalDue' = caRenewalDue
          /\ last'.steps = <<"secretsmanager.New", "GetCluster">>]_vars

\* Reconcile on an Extension without provider config returned nil for a
\* hibernated shoot whose managed resource an earlier Reconcile had created.
C16_Witness ==
    /\ last.op = "Reconcile"
    /\ GateOn
    /\ Hibernated(LastNs)
    /\ last.ex.Spec.ProviderConfig = Nil
    /\ last.err = Nil
    /\ last.steps = <<"secretsmanager.New", "GetCluster">>
    /\ HasManagedResource(LastNs)
    /\ secrets[LastNs] # {}

\* The call at position i of steps is made once, the two image lookups apart.
MadeOnce(steps, i) ==
    \A j \in DOMAIN steps : (j # i /\ steps[j] = steps[i]) => steps[i] = "FindImage"

\* C17: a Reconcile that returns an error from a step before the creation of
\* the managed resource (every error but that of CreateForSeed, and that of
\* DeleteForSeed with the feature gate off) leaves the managed resource of
\* every namespace exactly as it was. There is no retry: no call is made
\* twice and the call that failed is the last one made. There is no rollback:
\* the secrets that existed before the call and those generated before the
\* failure are all there afterwards.
C17_ErrorLeavesManagedResource ==
    [][(/\ CallOf({"Reconcile"})
        /\ last'.err # Nil
        /\ last'.fault \notin {"CreateForSeed", "DeleteForSeed"})
       => /\ managedResources' = managedResources
          /\ \A i \in DOMAIN last'.steps : MadeOnce(last'.steps, i)
          /\ last'.fault # "none" => last'.steps[Len(last'.steps)] = last'.fault
          /\ \A ns \in Namespaces : secrets[ns] \subseteq secrets'[ns]
          /\ (GateOn /\ last'.fault \in {"Generate.client", "FindImage", "AddAllAndSerialize"})
                => \E s \in secrets'[CallNs] : s.Name = secretNameServerCertificate]_vars

\* Reconcile failed to generate the client certificate: the managed resource
\* of an earlier Reconcile is still there, and so are the CA and the server
\* certificate generated before the failure.
C17_Witness ==
    /\ last.op = "Reconcile"
    /\ GateOn
    /\ last.fault = "Generate.client"
    /\ last.err # Nil
    /\ HasManagedResource(LastNs)
    /\ \E s \in secrets[LastNs] : s.Name = secretNameServerCertificate

\* The position of the first call of that name in steps, 0 when it is not made.
FirstAt(steps, call) ==
    IF \E i \in DOMAIN steps : steps[i] = call
    THEN CHOOSE i \in DOMAIN steps : steps[i] = call /\ \A j \in 1..(i - 1) : steps[j] # call
    ELSE 0
\* The newest certificate of that name among the secrets of the namespace.
NewestGen(ns, name) == CurrentGen(secrets[ns], name)
IssuedCA(ns, gen) == Secret(secretNameCACertificate, gen) \in secrets[ns]

C19_CleanupBeforeManagedResourceDeletion ==
    /\ \A ns \in Namespaces, pc \in DeleteProviderConfigs, fault \in {"secretsmanager.New", "Cleanup"} :
          LET d == DeleteCall(View(ns), Extension(ns, pc), fault) IN
          /\ d.err # Nil
          /\ d.mr = managedResources[ns]
          /\ ~Made(d.steps, "DeleteForSeed")
    /\ last.op = "Delete" =>
          LET new == FirstAt(last.steps, "secretsmanager.New")
              cleanup == FirstAt(last.steps, "Cleanup")
              delete == FirstAt(last.steps, "DeleteForSeed")
          IN
          /\ new = 1
          /\ delete > 0 => (cleanup > 0 /\ cleanup < delete)
          /\ last.fault = "secretsmanager.New" =>
                /\ ErrContains(last.err, "failed creating a new secrets manager")
                /\ cleanup = 0 /\ delete = 0
          /\ last.fault = "Cleanup" =>
                /\ ErrContains(last.err, "failed cleaning up secrets managed by secrets manager")
                /\ cleanup = Len(last.steps) /\ delete = 0
          /\ last.fault = "none" =>
                /\ last.err = Nil
                /\ last.steps = <<"secretsmanager.New", "Cleanup", "DeleteForSeed">>
                /\ managedResources[LastNs] = Nil
                /\ secrets[LastNs] = {}

\* The cleanup of a Delete failed: the error is returned, and the managed
\* resource of an earlier Reconcile is still there.
C19_Witness ==
    /\ last.op = "Delete"
    /\ last.fault = "Cleanup"
    /\ ErrContains(last.err, "failed cleaning up secrets managed by secrets manager")
    /\ last.steps = <<"secretsmanager.New", "Cleanup">>
    /\ HasManagedResource(LastNs)

(***************************************************************************)
(* Properties of the generated collector (SpecG).                          *)
(***************************************************************************)
\* The first byte of each exporter name: Go orders strings byte by byte.
FirstByte == ("debug" :> 100) @@ ("otlphttp" :> 111)
Ascending(names) ==
    \A i, j \in DOMAIN names : i < j => FirstByte[names[i]] < FirstByte[names[j]]

\* C20: in the collector generated from a decoded config that passed
\* Validate, the exporters of the metrics pipeline are the names of the
\* configured exporter entries, each once, in ascending order; "debug" is
\* among them exactly when the debug exporter is enabled and "otlphttp"
\* exactly when the OTLP HTTP exporter is enabled.
C20_PipelineExporters ==
    collector # Nil =>
        LET cfg == SetDefaults(vcfg)
            names == Deref(collector).Pipelines.metrics.Exporters
            entries == DOMAIN Deref(collector).Exporters
        IN
        /\ StepSet(names) = entries
        /\ Len(names) = Cardinality(entries)
        /\ entries \subseteq DOMAIN FirstByte
        /\ Ascending(names)
        /\ ("debug" \in StepSet(names)) <=> (cfg.Spec.Exporters.DebugExporter.Enabled = Ptr(TRUE))
        /\ ("otlphttp" \in StepSet(names)) <=> (cfg.Spec.Exporters.OTLPHTTPExporter.Enabled = Ptr(TRUE))

\* A collector generated from a config with both the debug and the OTLP
\* HTTP exporter enabled: both are in the pipeline, "debug" first.
C20_Witness ==
    /\ collector # Nil
    /\ vcfg.Spec.Exporters.DebugExporter.Enabled = Ptr(TRUE)
    /\ vcfg.Spec.Exporters.OTLPHTTPExporter.Enabled = Ptr(TRUE)
    /\ Deref(collector).Pipelines.metrics.Exporters = <<"debug", "otlphttp">>
    /\ DOMAIN Deref(collector).Exporters = {"debug", "otlphttp"}

PipelineExporters == Deref(collector).Pipelines.metrics.Exporters

\* C21: the collector generated by Reconcile from a decoded provider config
\* that passed Validate has at least one exporter in its metrics pipeline.
C21_PipelineHasExporter == collector # Nil => Len(PipelineExporters) > 0

\* A config whose only enabled exporter is the OTLP gRPC exporter, with its
\* endpoint, passed Validate; the collector generated from it has no
\* exporter entry and an empty metrics pipeline.
C21_Witness ==
    /\ collector # Nil
    /\ vcfg.Spec.Exporters.OTLPGRPCExporter.Enabled = Ptr(TRUE)
    /\ vcfg.Spec.Exporters.OTLPGRPCExporter.Endpoint # ""
    /\ vcfg.Spec.Exporters.DebugExporter.Enabled # Ptr(TRUE)
    /\ vcfg.Spec.Exporters.OTLPHTTPExporter.Enabled # Ptr(TRUE)
    /\ PipelineExporters = <<>>
    /\ DOMAIN Deref(collector).Exporters = {}

\* The references of a TLS block that are set, in the order CA, Cert, Key,
\* and the file each gets in the exporter's tls section.
TLSFileOf == [CA |-> "ca_file", Cert |-> "cert_file", Key |-> "key_file"]
SetRefs(tls) ==
    (IF tls.CA = Nil THEN <<>> ELSE <<tls.CA[1].ResourceRef>>)
    \o (IF tls.Cert = Nil THEN <<>> ELSE <<tls.Cert[1].ResourceRef>>)
    \o (IF tls.Key = Nil THEN <<>> ELSE <<tls.Key[1].ResourceRef>>)
Named(objs, name) == SelectSeq(objs, LAMBDA o : o.Name = name)

\* C22: in the collector generated from a decoded config that passed
\* Validate, a TLS block of the OTLP HTTP exporter gives exactly one volume
\* "tls", mounted once at /etc/ssl/tls, with one secret projection for each
\* reference that is set among CA, Cert, Key, in that order, whose item key
\* and path are the reference's dataKey; and the otlphttp exporter entry
\* (there is one when the exporter is enabled) has a tls section in which
\* ca_file, cert_file, key_file are there exactly for the references that
\* are set, each /etc/ssl/tls/<dataKey>. Without a TLS block there is no
\* "tls" volume, no mount of it and no tls section.
C22_TLSVolumeAndSettings ==
    collector # Nil =>
        LET c == Deref(collector)
            http == SetDefaults(vcfg).Spec.Exporters.OTLPHTTPExporter
            volumes == Named(c.Volumes, "tls")
            mounts == Named(c.VolumeMounts, "tls")
            hasEntry == "otlphttp" \in DOMAIN c.Exporters
        IN
        /\ hasEntry <=> (http.Enabled = Ptr(TRUE))
        /\ IF http.TLS = Nil
           THEN /\ volumes = <<>>
                /\ mounts = <<>>
                /\ hasEntry => "tls" \notin DOMAIN c.Exporters["otlphttp"]
           ELSE LET tls == Deref(http.TLS)
                    refs == SetRefs(tls)
                IN
                /\ Len(volumes) = 1
                /\ Len(mounts) = 1
                /\ mounts[1].MountPath = "/etc/ssl/tls"
                /\ Len(volumes[1].Sources) = Len(refs)
                /\ \A i \in DOMAIN refs :
                      /\ volumes[1].Sources[i].Key = refs[i].DataKey
                      /\ volumes[1].Sources[i].Path = refs[i].DataKey
                /\ hasEntry =>
                      /\ "tls" \in DOMAIN c.Exporters["otlphttp"]
                      /\ \A f \in DOMAIN TLSFileOf :
                            LET section == c.Exporters["otlphttp"]["tls"] IN
                            /\ (TLSFileOf[f] \in DOMAIN section) <=> (tls[f] # Nil)
                            /\ tls[f] # Nil =>
                                  section[TLSFileOf[f]] = "/etc/ssl/tls/" \o tls[f][1].ResourceRef.DataKey

\* A collector generated for an enabled OTLP HTTP exporter whose TLS block
\* sets CA, Cert and Key with three different data keys.
C22_Witness ==
    /\ collector # Nil
    /\ "otlphttp" \in DOMAIN Deref(collector).Exporters
    /\ vcfg.Spec.Exporters.OTLPHTTPExporter.TLS # Nil
    /\ Len(SetRefs(Deref(vcfg.Spec.Exporters.OTLPHTTPExporter.TLS))) = 3
    /\ Len(Named(Deref(collector).Volumes, "tls")) = 1
    /\ Len(Named(Deref(collector).Volumes, "tls")[1].Sources) = 3
    /\ Named(Deref(collector).Volumes, "tls")[1].Sources[1].Path = "ca.crt"
    /\ Named(Deref(collector).Volumes, "tls")[1].Sources[3].Path = "tls.key"
    /\ Deref(collector).Exporters["otlphttp"]["tls"]["ca_file"] = "/etc/ssl/tls/ca.crt"
    /\ Deref(collector).Exporters["otlphttp"]["tls"]["key_file"] = "/etc/ssl/tls/tls.key"

TLSSources ==
    IF Named(Deref(collector).Volumes, "tls") = <<>> THEN <<>>
    ELSE Named(Deref(collector).Volumes, "tls")[1].Sources

\* C23: in the collector generated from a decoded config that passed
\* Validate, no two secret projections of the "tls" volume have the same
\* path: the references CA, Cert and Key that are set get pairwise distinct
\* files under /etc/ssl/tls.
C23_DistinctTLSPaths ==
    collector # Nil =>
        \A i, j \in DOMAIN TLSSources : i # j => TLSSources[i].Path # TLSSources[j].Path

\* A config whose TLS block names the same data key for two references
\* passed Validate; two projections of the generated volume write the same
\* path and two files of the exporter's tls section are the same file.
C23_Witness ==
    /\ collector # Nil
    /\ "otlphttp" \in DOMAIN Deref(collector).Exporters
    /\ Len(TLSSources) >= 2
    /\ TLSSources[1].Path = TLSSources[2].Path
    /\ TLSSources[1].Path # ""
    /\ {"ca_file", "cert_file"} \subseteq DOMAIN Deref(collector).Exporters["otlphttp"]["tls"]
    /\ Deref(collector).Exporters["otlphttp"]["tls"]["ca_file"]
         = Deref(collector).Exporters["otlphttp"]["tls"]["cert_file"]

\* C24: in the collector generated from a decoded config that passed
\* Validate, the otlphttp exporter entry references an authenticator exactly
\* when the exporter is enabled with a token, and the authenticator is
\* "bearertokenauth". With a token configured the collector defines the
\* extension bearertokenauth with filename /etc/auth/bearer/<dataKey of the
\* token>, has it as its service extension, and has one secret volume
\* "bearer-token-auth" mounted once at /etc/auth/bearer. Without a token
\* there is no authenticator reference, no extension, no service extension,
\* no such volume and no such mount.
C24_BearerTokenAuth ==
    collector # Nil =>
        LET c == Deref(collector)
            http == SetDefaults(vcfg).Spec.Exporters.OTLPHTTPExporter
            hasEntry == "otlphttp" \in DOMAIN c.Exporters
            hasAuth == hasEntry /\ "auth" \in DOMAIN c.Exporters["otlphttp"]
            volumes == Named(c.Volumes, "bearer-token-auth")
            mounts == Named(c.VolumeMounts, "bearer-token-auth")
        IN
        /\ hasAuth <=> (http.Enabled = Ptr(TRUE) /\ http.Token # Nil)
        /\ hasAuth => c.Exporters["otlphttp"]["auth"].authenticator = "bearertokenauth"
        /\ IF http.Token = Nil
           THEN /\ DOMAIN c.Extensions = {}
                /\ c.ServiceExtensions = <<>>
                /\ volumes = <<>>
                /\ mounts = <<>>
           ELSE /\ DOMAIN c.Extensions = {"bearertokenauth"}
                /\ c.Extensions["bearertokenauth"].filename
                     = "/etc/auth/bearer/" \o http.Token[1].ResourceRef.DataKey
                /\ c.ServiceExtensions = <<"bearertokenauth">>
                /\ Len(volumes) = 1
                /\ volumes[1].Sources = <<>>
                /\ Len(mounts) = 1
                /\ mounts[1].MountPath = "/etc/auth/bearer"

\* A collector generated for an enabled OTLP HTTP exporter with a token
\* whose data key is "token".
C24_Witness ==
    /\ collector # Nil
    /\ "otlphttp" \in DOMAIN Deref(collector).Exporters
    /\ "auth" \in DOMAIN Deref(collector).Exporters["otlphttp"]
    /\ Deref(collector).Extensions["bearertokenauth"].filename = "/etc/auth/bearer/token"
    /\ Deref(collector).ServiceExtensions = <<"bearertokenauth">>
    /\ Len(Named(Deref(collector).VolumeMounts, "bearer-token-auth")) = 1

(***************************************************************************)
(* More properties of mgr.New (SpecM).                                     *)
(***************************************************************************)
\* The position of the last option of that name in os, 0 when none is.
LastIndex(os, name) ==
    IF Passed(os, name)
    THEN CHOOSE i \in DOMAIN os :
            os[i].opt = name /\ \A j \in DOMAIN os : (j > i) => os[j].opt # name
    ELSE 0
ManagerOf(result) == Deref(result.obj)

\* C25: the manager mgr.New returns gets the settings the options leave when
\* applied in argument order. Without WithControllerOptions and
\* WithMaxConcurrentReconciles the controller configuration is the default,
\* max concurrent reconciles 5 and recover-panic true. The last
\* WithControllerOptions gives the whole controller configuration, whatever
\* came before it, default or WithMaxConcurrentReconciles; a
\* WithMaxConcurrentReconciles after it changes the max concurrent
\* reconciles only, and the last of these counts. The rest config is that of
\* the last WithConfig.
C25_LastOptionWins ==
    (newResult.called /\ newResult.err = Nil) =>
        LET controller == ManagerOf(newResult).Controller
            whole == LastIndex(opts, "WithControllerOptions")
            max == LastIndex(opts, "WithMaxConcurrentReconciles")
        IN
        /\ (whole = 0 /\ max = 0) =>
              /\ controller.MaxConcurrentReconciles = 5
              /\ controller.RecoverPanic = Ptr(TRUE)
        /\ (whole = 0 /\ max > 0) =>
              /\ controller.MaxConcurrentReconciles = opts[max].val
              /\ controller.RecoverPanic = Ptr(TRUE)
        /\ (whole > 0 /\ max < whole) => controller = opts[whole].val
        /\ (whole > 0 /\ max > whole) =>
              /\ controller.MaxConcurrentReconciles = opts[max].val
              /\ controller.RecoverPanic = opts[whole].val.RecoverPanic
        /\ LastArg(opts, "WithConfig", Nil) # Nil =>
              ManagerOf(newResult).Config = LastArg(opts, "WithConfig", Nil)

\* As in the package's test, WithMaxConcurrentReconciles(42) came before
\* WithControllerOptions with recover-panic only: the manager got max
\* concurrent reconciles 0.
C25_Witness ==
    /\ newResult.called
    /\ newResult.err = Nil
    /\ LastIndex(opts, "WithMaxConcurrentReconciles") > 0
    /\ LastIndex(opts, "WithControllerOptions") > LastIndex(opts, "WithMaxConcurrentReconciles")
    /\ opts[LastIndex(opts, "WithMaxConcurrentReconciles")].val = 42
    /\ ManagerOf(newResult).Controller = [MaxConcurrentReconciles |-> 0, RecoverPanic |-> Ptr(TRUE)]

(***************************************************************************)
(* Properties of the manager command (SpecR).                              *)
(***************************************************************************)
StartOrder ==
    <<"mgr.New", "heartbeat.New", "hb.SetupWithManager", "actuator.New", "controller.New",
      "c.SetupWithManager", "m.Start">>
\* The errors the command returns when the call fails
ErrorsOfCall ==
    [x \in {"mgr.New"} |-> {"failed to add scheme", "failed to get rest config", "failed to create manager"}]
    @@ [x \in {"heartbeat.New"} |-> {"failed to create heartbeat controller"}]
    @@ [x \in {"hb.SetupWithManager"} |-> {"failed to setup heartbeat controller"}]
    @@ [x \in {"actuator.New"} |-> {"failed to create actuator"}]
    @@ [x \in {"controller.New"} |-> {"failed to create a controller"}]
    @@ [x \in {"c.SetupWithManager"} |-> {"failed to setup controller with manager"}]
    @@ [x \in {"m.Start"} |-> {"failed to start manager"}]

\* C26: the manager command makes its calls in the order mgr.New,
\* heartbeat.New, SetupWithManager of the heartbeat, actuator.New,
\* controller.New, SetupWithManager of the controller, Start of the manager,
\* so the manager is started only after all the others, none of which
\* failed. When one of them fails the command returns the error of that call,
\* makes no further call and the manager is not started.
C26_StartAfterSetup ==
    /\ Len(run.calls) <= Len(StartOrder)
    /\ run.calls = SubSeq(StartOrder, 1, Len(run.calls))
    /\ run.started <=> (run.calls = StartOrder)
    /\ run.err # Nil =>
          /\ run.pc = "returned"
          /\ run.calls # <<>>
          /\ Deref(run.err).Msg \in ErrorsOfCall[run.calls[Len(run.calls)]]
          /\ run.calls # StartOrder => ~run.started
    /\ (run.pc = "returned" /\ run.err = Nil) => run.started
    /\ (run.pc \notin {"none", "returned"}) =>
          (run.err = Nil /\ Len(run.calls) < Len(StartOrder) /\ run.pc = StartOrder[Len(run.calls) + 1])

\* The manager was started after the six calls before it, with the gate of
\* the collector among the flags.
C26_Witness ==
    /\ run.started
    /\ run.calls = StartOrder
    /\ run.err = Nil
    /\ run.flags.gardenletFeatureGates = (FeatureOpenTelemetryCollector :> TRUE)


(***************************************************************************)
(* The secrets across the actuator's calls (Spec)                          *)
(***************************************************************************)
\* Some secret of the namespace is gone after the step.
SecretsShrink(ns) == ~(secrets[ns] \subseteq secrets'[ns])

WorkerCall(op, st, ex) ==
    CASE op = "Reconcile" -> ReconcileCall(st, ex, "none")
      [] op = "Delete" -> DeleteCall(st, ex, "none")
      [] op = "ForceDelete" -> ForceDeleteCall(st, ex, "none")
      [] op = "Restore" -> RestoreCall(st, ex, "none")
      [] op = "Migrate" -> MigrateCall(st, ex, "none")

\* C27: the operations never write the Actuator's fields (the feature gates
\* an operation began with are still the actuator's), a namespace no
\* operation ran for is untouched, and under any interleaving of up to
\* workers.max operations for distinct namespaces an operation that has
\* returned leaves its namespace in the state, and returns the error, that
\* the operation produces when it runs alone from the state it began in.
C27_InterleavingIsSerial ==
    \A ns \in ShootNamespaces :
        LET w == workers.of[ns] IN
        /\ w.pc # "idle" => w.start.gates = gardenletFeatureGates
        /\ Cardinality({n \in ShootNamespaces : Busy(workers.of[n])}) <= workers.max
        /\ w.pc = "idle" =>
              secrets[ns] = {} /\ ~caRenewalDue[ns] /\ managedResources[ns] = Nil
        /\ w.pc = "returned" =>
              LET alone == WorkerCall(w.op, w.start, w.ex) IN
              /\ w.err = alone.err
              /\ secrets[ns] = alone.secrets
              /\ caRenewalDue[ns] = alone.caRenewalDue
              /\ managedResources[ns] = alone.mr

\* Two operations that ran beside each other have returned: a Reconcile that
\* created the managed resource of its namespace and a Delete that removed
\* the one of the other namespace.
C27_Witness ==
    \E a \in ShootNamespaces, b \in ShootNamespaces :
        /\ a # b
        /\ workers.of[a].pc = "returned" /\ workers.of[b].pc = "returned"
        /\ a \in workers.of[b].beside
        /\ workers.of[a].op = "Reconcile" /\ managedResources[a] # Nil
        /\ workers.of[b].op = "Delete" /\ workers.of[b].start.mr # Nil /\ managedResources[b] = Nil
        /\ secrets[a] # {} /\ secrets[b] = {}

====
